---------------------------- MODULE Spec2Model ----------------------------
(***************************************************************************)
(* A model of the PyWPS server of src/pywps/app.py: the request parser     *)
(* (WPSRequest), the Service facade (describe, execute, __call__), the     *)
(* process executor (Process.execute, Process._run_process) and the        *)
(* response/status builder (WPSResponse).                                  *)
(*                                                                         *)
(* Strings that the code splits are sequences of tokens: a token is either *)
(* one of the separators ";", "@", "=", "," or a separator-free chunk of   *)
(* text, so that str.split works on them as it does on characters.         *)
(* An optional value (None in the code) is a sequence of length 0 or 1.    *)
(***************************************************************************)
EXTENDS Integers, Sequences, FiniteSets, TLC

VARIABLES
    PY2,          \* pywps._compat.PY2, the interpreter generation of the build:
                  \* None until a request has been served whose handling
                  \* depends on it, then fixed
    processes,    \* Service.processes: identifier -> Process object
    files,        \* the output directory: status_location -> document written
    tmpfiles,     \* number of files in server.tempPath
    nuuid,        \* number of uuid4() values drawn so far
    nreq,         \* number of HTTP requests received so far
    nupdates,     \* number of update_status calls the handlers have made
    http,         \* the HTTP request being served (or served last)
    wps_request,  \* the WPSRequest built from it (None when parsing failed)
    pc,           \* position of the HTTP-serving stack
    cur,          \* uuid of the execution the HTTP-serving stack is in (0: none)
    tasks,        \* uuid -> the execution: its WPSResponse, handler position
    finished,     \* the execution whose _run_process ended last, since the
                  \* request being served was received
    fetched,      \* what urlopen(href) and the temporary file did for the
                  \* referenced input of the request being served
    stored,       \* FileStorage: its last store call and the files it has
                  \* copied into the output directory
    updated,      \* a WPSResponse on its own: the last update_status call
                  \* made on it and the response before and after
    outcome       \* what Service.__call__ returned for the request

vars == <<PY2, processes, files, tmpfiles, nuuid, nreq, nupdates, http,
          wps_request, pc, cur, tasks, finished, fetched, stored, updated,
          outcome>>

-----------------------------------------------------------------------------
(* Optional values, strings and dictionaries *)

None == <<>>
Some(x) == <<x>>
IsNone(o) == o = <<>>
Val(o) == o[1]

\* a one-chunk string
S(t) == <<t>>

\* python truthiness of an optional string: neither None nor ''
Truthy(o) == o # None /\ Val(o) # <<>>

LowerTable ==
    ("WPS" :> "wps") @@ ("Execute" :> "execute") @@ ("EXECUTE" :> "execute")
    @@ ("GetCapabilities" :> "getcapabilities")
    @@ ("DescribeProcess" :> "describeprocess")
    @@ ("TRUE" :> "true") @@ ("True" :> "true") @@ ("ALL" :> "all")
    @@ ("SERVICE" :> "service") @@ ("Request" :> "request")
    @@ ("REQUEST" :> "request") @@ ("Version" :> "version")
    @@ ("Identifier" :> "identifier") @@ ("WSDL" :> "wsdl")
    @@ ("storeExecuteResponse" :> "storeexecuteresponse")
    @@ ("Status" :> "status") @@ ("Lineage" :> "lineage")
    @@ ("DataInputs" :> "datainputs")
    @@ ("ResponseDocument" :> "responsedocument")
    @@ ("RawDataOutput" :> "rawdataoutput")
    @@ ("wPs" :> "wps") @@ ("WFS" :> "wfs") @@ ("Foo" :> "foo")
    @@ ("All" :> "all")

\* str.lower() of one chunk
LowerTok(t) == IF t \in DOMAIN LowerTable THEN LowerTable[t] ELSE t

\* str.lower()
Lower(s) == [i \in DOMAIN s |-> LowerTok(s[i])]

RECURSIVE SplitFrom(_, _, _)
SplitFrom(s, sep, piece) ==
    IF s = <<>> THEN <<piece>>
    ELSE IF Head(s) = sep THEN <<piece>> \o SplitFrom(Tail(s), sep, <<>>)
    ELSE SplitFrom(Tail(s), sep, Append(piece, Head(s)))

\* str.split(sep): ''.split(sep) is ['']
Split(s, sep) == SplitFrom(s, sep, <<>>)

EmptyDict == [k \in {} |-> <<>>]

\* d[k] = v
Put(d, k, v) == [x \in DOMAIN d \cup {k} |-> IF x = k THEN v ELSE d[x]]

\* d.get(k, default)
Get(d, k, default) == IF k \in DOMAIN d THEN d[k] ELSE default

-----------------------------------------------------------------------------
(* get_data_from_kvp *)

RECURSIVE KvpAttributes(_, _, _)
\* the loop over fields[1:]: None when a segment fails the attr=value split
KvpAttributes(fields, i, io) ==
    IF i > Len(fields) THEN Some(io)
    ELSE LET pair == Split(fields[i], "=")
         IN IF Len(pair) # 2 THEN None
            ELSE KvpAttributes(fields, i + 1, Put(io, pair[1], pair[2]))

\* KvpEntry with a failing attribute segment skipped instead of raising
KvpEntry_SkippingAttributes(d) ==
    LET fields == Split(d, "@")
        first  == Split(fields[1], "=")
    IN IF Len(first) # 2 THEN None
       ELSE Some([identifier |-> first[1],
                  io |-> (S("identifier") :> first[1]) @@ (S("data") :> first[2])])

\* the try block for one entry d: None when it raises
KvpEntry(d) ==
    LET fields == Split(d, "@")
        first  == Split(fields[1], "=")
    IN IF Len(first) # 2 THEN None
       ELSE LET io == KvpAttributes(fields, 2,
                          (S("identifier") :> first[1]) @@ (S("data") :> first[2]))
            IN IF IsNone(io) THEN None
               ELSE Some([identifier |-> first[1], io |-> Val(io)])

RECURSIVE KvpEntries(_, _, _)
KvpEntries(entries, i, the_data) ==
    IF i > Len(entries) THEN the_data
    ELSE LET d == entries[i]
             e == KvpEntry(d)
         IN KvpEntries(entries, i + 1,
                IF IsNone(e)
                THEN Put(the_data, d, (S("identifier") :> d) @@ (S("data") :> <<>>))
                ELSE Put(the_data, Val(e).identifier, Val(e).io))

get_data_from_kvp(data) ==
    IF IsNone(data) THEN None
    ELSE Some(KvpEntries(Split(Val(data), ";"), 1, EmptyDict))

-----------------------------------------------------------------------------
(* Failures.  The OGC kinds are the classes of pywps.exceptions, every one of
   them an HTTPException; BadRequest and MethodNotAllowed are werkzeug's; the
   remaining classes are plain Python errors, which no handler of
   HTTPException catches. *)

OGCKinds == {"MissingParameterValue", "InvalidParameterValue",
             "VersionNegotiationFailed", "NoApplicableCode",
             "OperationNotSupported", "FileSizeExceeded", "NotEnoughStorage",
             "StorageNotSupported"}

HTTPKinds == OGCKinds \cup {"BadRequest", "MethodNotAllowed"}

\* an exception object: its class, locator, description and HTTP status code
Exc(class, locator, description, code) ==
    [class |-> class, locator |-> locator, description |-> description,
     code |-> code]

\* raise Kind(description, locator) of pywps.exceptions
OGC(class, description, locator) == Exc(class, locator, description, 400)

\* a Python error that is no HTTPException
PyError(class) == Exc(class, <<>>, "", 0)

\* isinstance(e, HTTPException)
IsHTTPException(e) == e.class \in HTTPKinds

\* isinstance(e, NoApplicableCode): NoApplicableCode is the base class of
\* the OGC kinds
IsNoApplicableCode(e) == e.class \in OGCKinds

-----------------------------------------------------------------------------
(* WPSRequest *)

RECURSIVE GetParamFrom(_, _, _, _)
GetParamFrom(args, i, key, value) ==
    IF i > Len(args) THEN value
    ELSE GetParamFrom(args, i + 1, key,
             IF LowerTok(args[i][1]) = key THEN Some(args[i][2]) ELSE value)

\* WPSRequest._get_get_param(key, default), aslist=False
get_get_param(h, key, default) == GetParamFrom(h.args, 1, LowerTok(key), default)

\* WPSRequest._get_get_param(key, aslist=True)
get_get_param_list(h, key) ==
    LET v == get_get_param(h, key, None)
    IN IF IsNone(v) THEN None ELSE Some(Split(Val(v), ","))

\* the attributes WPSRequest.__init__ sets; None stands for one it did not set
Req(operation, version, identifiers, identifier, store_execute, status, lineage, inputs, outputs, raw) ==
    [operation |-> operation, version |-> version, identifiers |-> identifiers,
     identifier |-> identifier, store_execute |-> store_execute,
     status |-> status, lineage |-> lineage, inputs |-> inputs,
     outputs |-> outputs, raw |-> raw]

Parsed(req) == [ok |-> TRUE, req |-> req, exc |-> PyError("")]
Raised(exc) == [ok |-> FALSE, req |-> None, exc |-> exc]

\* VersionCheck comparing the major version only: '1.0' passes as '1.0.0' does
VersionCheck_MajorOnly(version) ==
    IF ~Truthy(version)
    THEN Some(OGC("MissingParameterValue", "Missing version", S("version")))
    ELSE IF Val(version) \notin {S("1.0.0"), S("1.0")}
    THEN Some(OGC("VersionNegotiationFailed", "version not supported", S("version")))
    ELSE None

\* the version check shared by DescribeProcess and Execute: None when it passes
VersionCheck(version) ==
    IF ~Truthy(version)
    THEN Some(OGC("MissingParameterValue", "Missing version", S("version")))
    ELSE IF Val(version) # S("1.0.0")
    THEN Some(OGC("VersionNegotiationFailed", "version not supported", S("version")))
    ELSE None

\* GetRawForm without lines 317-319: a raw request keeps the flags of the query
GetRawForm_KeepingFlags(h) ==
    LET resp_outputs == get_data_from_kvp(get_get_param(h, "ResponseDocument", None))
        raw_outputs  == get_data_from_kvp(get_get_param(h, "RawDataOutput", None))
    IN [outputs |-> IF ~IsNone(resp_outputs) /\ Val(resp_outputs) # EmptyDict
                    THEN Val(resp_outputs)
                    ELSE IF ~IsNone(raw_outputs) THEN Val(raw_outputs)
                    ELSE EmptyDict,
        raw |-> (IsNone(resp_outputs) \/ Val(resp_outputs) = EmptyDict)
                /\ ~IsNone(raw_outputs) /\ Val(raw_outputs) # EmptyDict,
        store_execute |-> get_get_param(h, "storeExecuteResponse", Some(S("false"))),
        status |-> get_get_param(h, "status", Some(S("false")))]

\* the response form of a GET Execute request (lines 301-319): the outputs,
\* raw, and the flags store_execute and status as the form leaves them
GetRawForm(h) ==
    LET resp_outputs == get_data_from_kvp(get_get_param(h, "ResponseDocument", None))
        raw_outputs  == get_data_from_kvp(get_get_param(h, "RawDataOutput", None))
        store_execute == get_get_param(h, "storeExecuteResponse", Some(S("false")))
        status        == get_get_param(h, "status", Some(S("false")))
    IN IF ~IsNone(resp_outputs) /\ Val(resp_outputs) # EmptyDict
       THEN [outputs |-> Val(resp_outputs), raw |-> FALSE,
             store_execute |-> store_execute, status |-> status]
       ELSE IF ~IsNone(raw_outputs) /\ Val(raw_outputs) # EmptyDict
       THEN [outputs |-> Val(raw_outputs), raw |-> TRUE,
             store_execute |-> Some(S("false")), status |-> Some(S("false"))]
       ELSE [outputs |-> EmptyDict, raw |-> FALSE,
             store_execute |-> store_execute, status |-> status]

\* ParseGet with the WSDL parameter looked at after the service parameter
ParseGet_ServiceFirst(h) ==
    LET wsdl      == get_get_param(h, "WSDL", None)
        service   == get_get_param(h, "service", None)
        request   == get_get_param(h, "request", None)
        operation == Lower(Val(request))
        version   == get_get_param(h, "version", None)
        form      == GetRawForm(h)
    IN IF ~Truthy(service)
       THEN Raised(OGC("MissingParameterValue", "service", S("service")))
       ELSE IF ~IsNone(wsdl)
       THEN Raised(OGC("NoApplicableCode", "WSDL not implemented", <<>>))
       ELSE IF Lower(Val(service)) # S("wps")
       THEN Raised(OGC("OperationNotSupported", "parameter SERVICE not supported", <<>>))
       ELSE IF ~Truthy(request)
       THEN Raised(OGC("MissingParameterValue", "Missing request value", S("request")))
       ELSE IF operation = S("getcapabilities")
       THEN Parsed(Req(operation, None, None, None, None, None, None, None,
                       EmptyDict, FALSE))
       ELSE IF operation = S("describeprocess")
       THEN IF ~IsNone(VersionCheck(version)) THEN Raised(Val(VersionCheck(version)))
            ELSE Parsed(Req(operation, version, get_get_param_list(h, "identifier"),
                            None, None, None, None, None, EmptyDict, FALSE))
       ELSE IF operation = S("execute")
       THEN IF ~IsNone(VersionCheck(version)) THEN Raised(Val(VersionCheck(version)))
            ELSE Parsed(Req(operation, version, None,
                            get_get_param(h, "identifier", None),
                            form.store_execute, form.status,
                            get_get_param(h, "lineage", Some(S("false"))),
                            get_data_from_kvp(get_get_param(h, "DataInputs", None)),
                            form.outputs, form.raw))
       ELSE Raised(OGC("InvalidParameterValue", "Unknown request", S("request")))

\* WPSRequest.__init__, http_request.method == 'GET'
ParseGet(h) ==
    LET wsdl      == get_get_param(h, "WSDL", None)
        service   == get_get_param(h, "service", None)
        request   == get_get_param(h, "request", None)
        operation == Lower(Val(request))
        version   == get_get_param(h, "version", None)
        form      == GetRawForm(h)
    IN IF ~IsNone(wsdl)
       THEN Raised(OGC("NoApplicableCode", "WSDL not implemented", <<>>))
       ELSE IF ~Truthy(service)
       THEN Raised(OGC("MissingParameterValue", "service", S("service")))
       ELSE IF Lower(Val(service)) # S("wps")
       THEN Raised(OGC("OperationNotSupported", "parameter SERVICE not supported", <<>>))
       ELSE IF ~Truthy(request)
       THEN Raised(OGC("MissingParameterValue", "Missing request value", S("request")))
       ELSE IF operation = S("getcapabilities")
       THEN Parsed(Req(operation, None, None, None, None, None, None, None,
                       EmptyDict, FALSE))
       ELSE IF operation = S("describeprocess")
       THEN IF ~IsNone(VersionCheck(version)) THEN Raised(Val(VersionCheck(version)))
            ELSE Parsed(Req(operation, version, get_get_param_list(h, "identifier"),
                            None, None, None, None, None, EmptyDict, FALSE))
       ELSE IF operation = S("execute")
       THEN IF ~IsNone(VersionCheck(version)) THEN Raised(Val(VersionCheck(version)))
            ELSE Parsed(Req(operation, version, None,
                            get_get_param(h, "identifier", None),
                            form.store_execute, form.status,
                            get_get_param(h, "lineage", Some(S("false"))),
                            get_data_from_kvp(get_get_param(h, "DataInputs", None)),
                            form.outputs, form.raw))
       ELSE Raised(OGC("InvalidParameterValue", "Unknown request", S("request")))

-----------------------------------------------------------------------------
(* POST documents.  A document is a record: wellformed (lxml parses it), root
   (the root tag), version (the root's version attribute), identifiers (the
   texts of the root's ows:Identifier children), inputs (the wps:Input
   elements), response_document (the wps:ResponseDocument element, if any) and
   raw_data_output (the wps:RawDataOutput elements). *)

\* an lxml element used where the code expects a string
XmlElement == S("<lxml.etree._Element>")

\* an owslib BoundingBox object used where the code expects a dictionary
BoundingBoxObject == (S("<owslib.ows.BoundingBox>") :> <<>>)

Returned(value) == [ok |-> TRUE, value |-> value, exc |-> PyError("")]
Failed(exc) == [ok |-> FALSE, value |-> None, exc |-> exc]

\* the dictionary get_input_from_xml builds for one wps:Input element
InputDict(el) ==
    LET id == el.identifiers[1]
    IN CASE el.form = "literal" ->
              (S("identifier") :> id) @@ (S("data") :> el.text)
              @@ (S("uom") :> <<>>) @@ (S("datatype") :> <<>>)
         [] el.form = "complex" ->
              (S("identifier") :> id) @@ (S("data") :> XmlElement)
              @@ (S("mime_type") :> <<>>) @@ (S("encoding") :> <<>>)
              @@ (S("schema") :> <<>>) @@ (S("method") :> S("GET"))
         [] el.form = "reference" ->
              Put(Put(Put((S("identifier") :> id), id, el.text),
                      S("href"), el.href), S("mimeType"), <<>>)

RECURSIVE InputsFromXml(_, _, _, _)
InputsFromXml(inputs, i, the_input, py2) ==
    IF i > Len(inputs) THEN Returned(the_input)
    ELSE LET el == inputs[i]
         IN IF Len(el.identifiers) # 1 THEN Failed(PyError("ValueError"))
            ELSE IF el.form = "complex_text" THEN Failed(PyError("IndexError"))
            ELSE IF el.form \in {"literal", "complex", "reference"}
            THEN InputsFromXml(inputs, i + 1,
                     Put(the_input, el.identifiers[1], InputDict(el)), py2)
            ELSE IF el.form = "bbox" /\ py2
            THEN InputsFromXml(inputs, i + 1,
                     Put(the_input, el.identifiers[1], BoundingBoxObject), py2)
            ELSE InputsFromXml(inputs, i + 1, the_input, py2)

get_input_from_xml(doc, py2) == InputsFromXml(doc.inputs, 1, EmptyDict, py2)

RECURSIVE OutputsFromXml(_, _, _, _)
\* the loops of get_output_from_xml: raw for the wps:RawDataOutput elements
OutputsFromXml(outputs, i, the_output, raw) ==
    IF i > Len(outputs) THEN Returned(the_output)
    ELSE LET el == outputs[i]
             id == el.identifiers[1]
         IN IF Len(el.identifiers) # 1 THEN Failed(PyError("ValueError"))
            ELSE OutputsFromXml(outputs, i + 1,
                     Put(the_output, id,
                         IF raw
                         THEN Put(Put(Put(Put((id :> <<>>), S("mimetype"), <<>>),
                                  S("encoding"), <<>>), S("schema"), <<>>),
                                  S("uom"), <<>>)
                         ELSE Put((id :> <<>>), S("asReference"),
                                  IF IsNone(el.asReference) THEN S("false")
                                  ELSE Val(el.asReference))),
                     raw)

get_output_from_xml(doc) ==
    IF ~IsNone(doc.response_document)
    THEN OutputsFromXml(Val(doc.response_document).outputs, 1, EmptyDict, FALSE)
    ELSE IF doc.raw_data_output # <<>>
    THEN OutputsFromXml(doc.raw_data_output, 1, EmptyDict, TRUE)
    ELSE Returned(EmptyDict)

\* attrib.get(name, 'false') of the wps:ResponseDocument element
FormAttr(attr) == IF IsNone(attr) THEN Some(S("false")) ELSE attr

\* the flags of a POST Execute document: lines 350-366 without the inputs
PostFlags(doc) ==
    LET raw == doc.raw_data_output # <<>>
        rd  == Val(doc.response_document)
    IN IF ~IsNone(doc.response_document)
       THEN [raw |-> raw, lineage |-> FormAttr(rd.lineage),
             store_execute |-> FormAttr(rd.storeExecuteResponse),
             status |-> FormAttr(rd.status)]
       ELSE [raw |-> raw, lineage |-> Some(S("false")),
             store_execute |-> Some(S("false")), status |-> Some(S("false"))]

\* WPSRequest.__init__, http_request.method == 'POST'
ParsePost(h, py2) ==
    LET doc     == h.body
        inputs  == get_input_from_xml(doc, py2)
        outputs == get_output_from_xml(doc)
        flags   == PostFlags(doc)
    IN IF ~doc.wellformed THEN Raised(PyError("XMLSyntaxError"))
       ELSE IF doc.root = "GetCapabilities"
       THEN Parsed(Req(S("getcapabilities"), None, None, None, None, None, None,
                       None, EmptyDict, FALSE))
       ELSE IF doc.root = "DescribeProcess"
       THEN IF ~IsNone(VersionCheck(doc.version))
            THEN Raised(Val(VersionCheck(doc.version)))
            ELSE Parsed(Req(S("describeprocess"), doc.version,
                            Some(doc.identifiers), None, None, None, None, None,
                            EmptyDict, FALSE))
       ELSE IF doc.root = "Execute"
       THEN IF ~IsNone(VersionCheck(doc.version))
            THEN Raised(Val(VersionCheck(doc.version)))
            ELSE IF doc.identifiers = <<>> THEN Raised(PyError("IndexError"))
            ELSE IF ~inputs.ok THEN Raised(inputs.exc)
            ELSE IF ~outputs.ok THEN Raised(outputs.exc)
            ELSE Parsed(Req(S("execute"), doc.version, None,
                            Some(doc.identifiers[1]), flags.store_execute,
                            flags.status, flags.lineage, Some(inputs.value),
                            outputs.value, flags.raw))
       ELSE Raised(OGC("InvalidParameterValue", doc.root, <<>>))

\* WPSRequest.__init__
WPSRequest(h, py2) ==
    IF h.method = "GET" THEN ParseGet(h)
    ELSE IF h.method = "POST" THEN ParsePost(h, py2)
    ELSE Raised(Exc("MethodNotAllowed", <<>>, "Method Not Allowed", 405))

-----------------------------------------------------------------------------
(* Input resolution: parse_complex_inputs, parse_literal_inputs *)

\* ComplexInput.max_megabytes, as calculate_max_input_size() resolves it
max_megabytes == 1

\* byte_size = data_input.max_megabytes * 1024 * 1024
byte_size == max_megabytes * 1024 * 1024

\* the UTF-8 length of one chunk: two chunks stand for payloads of the size of
\* the limit and of one byte more, every other chunk and separator is short
ChunkBytes(t) ==
    CASE t = "payload-at-limit" -> byte_size
      [] t = "payload-over-limit" -> byte_size + 1
      [] OTHER -> 1

RECURSIVE Utf8Len(_)
\* len(data.encode('utf-8'))
Utf8Len(s) == IF s = <<>> THEN 0 ELSE ChunkBytes(Head(s)) + Utf8Len(Tail(s))

\* inputs.get(key): None when the key is absent
GetOpt(d, k) == IF k \in DOMAIN d THEN Some(d[k]) ELSE None

Resolved(value, tmp) == [ok |-> TRUE, value |-> value, exc |-> PyError(""), tmp |-> tmp]
Rejected(exc, tmp) == [ok |-> FALSE, value |-> None, exc |-> exc, tmp |-> tmp]

\* the size the reference branch compares with the limit: the Content-Length
\* header when the response has one (a string, never equal to the int 0),
\* otherwise what the StringIO measure gives
ReferenceSize(web, py2) ==
    IF ~IsNone(web.content_length) THEN Val(web.content_length)
    ELSE IF py2 THEN 0 ELSE web.size

\* parse_complex_inputs(inputs); web is what urlopen(href) and the temporary
\* file do; tmp counts the files mkstemp created
parse_complex_inputs(inputs, web, py2) ==
    LET href == GetOpt(inputs, S("href"))
        data == GetOpt(inputs, S("data"))
        id   == GetOpt(inputs, S("identifier"))
    IN IF inputs = BoundingBoxObject THEN Rejected(PyError("AttributeError"), 0)
       ELSE IF Truthy(href)
       THEN IF ~web.fetch_ok
            THEN Rejected(OGC("NoApplicableCode", "File reference error", <<>>), 1)
            ELSE IF ReferenceSize(web, py2) > byte_size
            THEN Rejected(OGC("FileSizeExceeded", "File size for input exceeded",
                              Val(id)), 1)
            ELSE IF ~web.write_ok
            THEN Rejected(OGC("NoApplicableCode", "write failed", <<>>), 1)
            ELSE Resolved([type |-> "ComplexInput", identifier |-> id,
                           data |-> None, url |-> href, as_reference |-> TRUE], 1)
       ELSE IF IsNone(data) \/ Val(data) = XmlElement
       THEN Rejected(PyError("AttributeError"), 0)
       ELSE IF Utf8Len(Val(data)) > byte_size
       THEN Rejected(OGC("FileSizeExceeded", "File size for input exceeded",
                         Val(id)), 0)
       ELSE Resolved([type |-> "ComplexInput", identifier |-> id, data |-> data,
                      url |-> None, as_reference |-> FALSE], 0)

\* parse_literal_inputs(inputs)
parse_literal_inputs(inputs) ==
    IF inputs = BoundingBoxObject THEN Rejected(PyError("AttributeError"), 0)
    ELSE Resolved([type |-> "LiteralInput",
                   identifier |-> GetOpt(inputs, S("identifier")),
                   data |-> GetOpt(inputs, S("data")), url |-> None,
                   as_reference |-> FALSE], 0)

\* the declared input inpt resolved from what was submitted for it
ResolveInput(inpt, submitted, web, py2) ==
    IF inpt.type = "ComplexInput"
    THEN parse_complex_inputs(submitted[inpt.identifier], web, py2)
    ELSE parse_literal_inputs(submitted[inpt.identifier])

RECURSIVE ResolveInputs(_, _, _, _, _, _, _)

\* one turn of the loop, r being the declared input resolved
ResolveNext(declared, i, submitted, data_inputs, tmp, web, py2, r) ==
    IF ~r.ok THEN Rejected(r.exc, tmp + r.tmp)
    ELSE ResolveInputs(declared, i + 1, submitted,
                       Put(data_inputs, declared[i].identifier, r.value),
                       tmp + r.tmp, web, py2)

\* the loop of Service.execute over process.inputs (lines 972-983)
ResolveInputs(declared, i, submitted, data_inputs, tmp, web, py2) ==
    IF i > Len(declared) THEN Resolved(data_inputs, tmp)
    ELSE IF declared[i].identifier \notin DOMAIN submitted
    THEN Rejected(OGC("MissingParameterValue", "", declared[i].identifier), tmp)
    ELSE ResolveNext(declared, i, submitted, data_inputs, tmp, web, py2,
                     ResolveInput(declared[i], submitted, web, py2))

\* CheckInputs with the first declared input named when no DataInputs
\* parameter was submitted
CheckInputs_NamingInput(process, request, web, py2) ==
    IF process.inputs # <<>> /\ IsNone(request.inputs)
    THEN Rejected(OGC("MissingParameterValue", "", process.inputs[1].identifier), 0)
    ELSE IF process.inputs = <<>> THEN Resolved(EmptyDict, 0)
    ELSE ResolveInputs(process.inputs, 1, Val(request.inputs), EmptyDict, 0,
                       web, py2)

\* lines 966-983 of Service.execute: the submitted inputs against the
\* declared ones
CheckInputs(process, request, web, py2) ==
    IF process.inputs # <<>> /\ IsNone(request.inputs)
    THEN Rejected(OGC("MissingParameterValue", "", S("datainputs")), 0)
    ELSE IF process.inputs = <<>> THEN Resolved(EmptyDict, 0)
    ELSE ResolveInputs(process.inputs, 1, Val(request.inputs), EmptyDict, 0,
                       web, py2)

-----------------------------------------------------------------------------
(* WPSResponse *)

NO_STATUS == 0
STORE_STATUS == 1
STORE_AND_UPDATE_STATUS == 2

\* WPSResponse.__init__: doc is the last-built document, None before the first
NewResponse == [status |-> NO_STATUS, status_percentage |-> 0, message |-> "",
                doc |-> None]

\* an ExecuteResponse document: its status element, the percentCompleted of a
\* ProcessStarted, its statusLocation attribute (0: none), whether it has the
\* lineage blocks, and its ProcessOutputs block (the outputs' data), if any
Doc(state, percent, location, lineage, outputs) ==
    [state |-> state, percent |-> percent, statusLocation |-> location,
     lineage |-> lineage, outputs |-> outputs]

\* the data of the outputs, in declared order
OutputData(outputs) == [i \in DOMAIN outputs |-> outputs[i].data]

\* _construct_doc reporting ProcessStarted at every level
construct_doc_StartedAtAnyLevel(resp, location, lineage, outputs) ==
    LET loc == IF resp.status >= STORE_STATUS THEN location ELSE 0
    IN IF resp.status >= STORE_AND_UPDATE_STATUS /\ resp.status_percentage = 0
       THEN [doc |-> Doc("ProcessAccepted", None, loc, FALSE, None),
             message |-> "PyWPS Process accepted", writes |-> TRUE]
       ELSE IF 0 < resp.status_percentage /\ resp.status_percentage < 100
       THEN [doc |-> Doc("ProcessStarted", Some(resp.status_percentage), loc,
                         FALSE, None),
             message |-> resp.message, writes |-> FALSE]
       ELSE IF resp.status_percentage = -1
       THEN [doc |-> Doc("ProcessFailed", None, loc, FALSE, None),
             message |-> resp.message, writes |-> FALSE]
       ELSE [doc |-> Doc("ProcessSucceeded", None, loc, lineage = Some(S("true")),
                         Some(OutputData(outputs))),
             message |-> resp.message, writes |-> FALSE]

\* WPSResponse._construct_doc: the document, the message it leaves, and
\* whether it writes the document to status_location itself (line 515)
construct_doc(resp, location, lineage, outputs) ==
    LET loc == IF resp.status >= STORE_STATUS THEN location ELSE 0
    IN IF resp.status >= STORE_AND_UPDATE_STATUS /\ resp.status_percentage = 0
       THEN [doc |-> Doc("ProcessAccepted", None, loc, FALSE, None),
             message |-> "PyWPS Process accepted", writes |-> TRUE]
       ELSE IF resp.status >= STORE_AND_UPDATE_STATUS
               /\ 0 < resp.status_percentage /\ resp.status_percentage < 100
       THEN [doc |-> Doc("ProcessStarted", Some(resp.status_percentage), loc,
                         FALSE, None),
             message |-> resp.message, writes |-> FALSE]
       ELSE IF resp.status_percentage = -1
       THEN [doc |-> Doc("ProcessFailed", None, loc, FALSE, None),
             message |-> resp.message, writes |-> FALSE]
       ELSE [doc |-> Doc("ProcessSucceeded", None, loc, lineage = Some(S("true")),
                         Some(OutputData(outputs))),
             message |-> resp.message, writes |-> FALSE]

\* WPSResponse.write_response_doc(doc): the failure it raises, None when the
\* document is written; writable says whether open() and write() succeed
write_response_doc(doc, writable) ==
    IF IsNone(doc) THEN Some(PyError("TypeError"))
    ELSE IF ~writable
    THEN Some(OGC("NoApplicableCode", "Writing Response Document failed", <<>>))
    ELSE None

\* `if status_percentage:` (line 410): an absent percentage is None, and 0
\* is as false as None
Supplied(percentage) == ~IsNone(percentage) /\ Val(percentage) # 0

\* lines 409-411: the message and the percentage recorded
Recorded(resp, message, percentage) ==
    IF Supplied(percentage)
    THEN [resp EXCEPT !.message = message, !.status_percentage = Val(percentage)]
    ELSE [resp EXCEPT !.message = message]

\* line 414: the document built by _construct_doc kept as self.doc
Rebuilt(resp, built) ==
    [resp EXCEPT !.doc = Some(built.doc), !.message = built.message]

\* the outcome of update_status: the response after the call, the failure
\* it raises (None: none) and the document written to status_location
\* (None: none)
Updated(resp, failure) ==
    [resp |-> resp, exc |-> failure,
     written |-> IF resp.status >= STORE_STATUS /\ IsNone(failure)
                 THEN resp.doc ELSE None]

\* lines 416-418: the document stored when the level asks for it
StoreStatus(resp, writable) ==
    Updated(resp, IF resp.status >= STORE_STATUS
                  THEN write_response_doc(resp.doc, writable)
                  ELSE None)

\* lines 410-414 on the response with the message and percentage recorded
Rebuild(resp, percentage, location, lineage, outputs) ==
    IF Supplied(percentage)
    THEN Rebuilt(resp, construct_doc(resp, location, lineage, outputs))
    ELSE resp

\* WPSResponse.update_status(message, status_percentage)
update_status(resp, message, percentage, location, lineage, outputs, writable) ==
    StoreStatus(Rebuild(Recorded(resp, message, percentage), percentage,
                        location, lineage, outputs), writable)

\* no update_status call yet on a newly constructed WPSResponse
NoUpdate ==
    [before |-> NewResponse, message |-> "", percentage |-> None,
     writable |-> TRUE, after |-> NewResponse, exc |-> None, written |-> None]

-----------------------------------------------------------------------------
(* Process *)

\* Process.__init__
Process(identifier, inputs, outputs, store_supported, status_supported) ==
    [identifier |-> identifier, inputs |-> inputs,
     outputs |-> [i \in DOMAIN outputs |->
                    [identifier |-> outputs[i], as_reference |-> FALSE,
                     data |-> None]],
     uuid |-> 0, status_location |-> 0,
     store_supported |-> IF store_supported THEN "true" ELSE "false",
     status_supported |-> IF status_supported THEN "true" ELSE "false"]

\* ProcessExecute with the status flag looked at on its own: status 'true'
\* asks for a spawned task whether or not storage was requested
ProcessExecute_StatusAlone(process, request, uuid) ==
    LET p1 == [process EXCEPT !.uuid = uuid]
        p2 == [p1 EXCEPT !.status_location = uuid]
    IN IF request.store_execute = Some(S("true")) /\ process.store_supported # "true"
       THEN [process |-> p1, resp |-> NewResponse, async |-> FALSE,
             exc |-> Some(OGC("StorageNotSupported",
                 "Process does not support the storing of the execute response",
                 <<>>))]
       ELSE IF request.status = Some(S("true"))
       THEN IF process.status_supported # "true"
            THEN [process |-> p2, resp |-> NewResponse, async |-> FALSE,
                  exc |-> Some(OGC("OperationNotSupported",
                      "Process does not support the updating of status", <<>>))]
            ELSE [process |-> p2,
                  resp |-> [NewResponse EXCEPT !.status = STORE_AND_UPDATE_STATUS],
                  async |-> TRUE, exc |-> None]
       ELSE IF request.store_execute = Some(S("true"))
       THEN [process |-> p2,
             resp |-> [NewResponse EXCEPT !.status = STORE_STATUS],
             async |-> FALSE, exc |-> None]
       ELSE [process |-> p1, resp |-> NewResponse, async |-> FALSE, exc |-> None]

\* Process.execute keeping the status file the process already has
ProcessExecute_OneFilePerProcess(process, request, uuid) ==
    LET p1 == [process EXCEPT !.uuid = uuid]
        p2 == [p1 EXCEPT !.status_location =
                            IF process.status_location = 0 THEN uuid
                            ELSE process.status_location]
    IN IF request.store_execute = Some(S("true"))
       THEN IF process.store_supported # "true"
            THEN [process |-> p1, resp |-> NewResponse, async |-> FALSE,
                  exc |-> Some(OGC("StorageNotSupported",
                      "Process does not support the storing of the execute response",
                      <<>>))]
            ELSE IF request.status = Some(S("true"))
            THEN IF process.status_supported # "true"
                 THEN [process |-> p2, resp |-> NewResponse, async |-> FALSE,
                       exc |-> Some(OGC("OperationNotSupported",
                           "Process does not support the updating of status",
                           <<>>))]
                 ELSE [process |-> p2,
                       resp |-> [NewResponse EXCEPT
                                    !.status = STORE_AND_UPDATE_STATUS],
                       async |-> TRUE, exc |-> None]
            ELSE [process |-> p2,
                  resp |-> [NewResponse EXCEPT !.status = STORE_STATUS],
                  async |-> FALSE, exc |-> None]
       ELSE [process |-> p1, resp |-> NewResponse, async |-> FALSE,
             exc |-> None]

\* Process.execute up to the point where the handler is run or handed off
\* (lines 655-684): the Process object after it, the new WPSResponse, whether
\* the handler runs in a spawned task, and the failure raised, if any
ProcessExecute(process, request, uuid) ==
    LET p1 == [process EXCEPT !.uuid = uuid]
        p2 == [p1 EXCEPT !.status_location = uuid]
    IN IF request.store_execute = Some(S("true"))
       THEN IF process.store_supported # "true"
            THEN [process |-> p1, resp |-> NewResponse, async |-> FALSE,
                  exc |-> Some(OGC("StorageNotSupported",
                      "Process does not support the storing of the execute response",
                      <<>>))]
            ELSE IF request.status = Some(S("true"))
            THEN IF process.status_supported # "true"
                 THEN [process |-> p2, resp |-> NewResponse, async |-> FALSE,
                       exc |-> Some(OGC("OperationNotSupported",
                           "Process does not support the updating of status",
                           <<>>))]
                 ELSE [process |-> p2,
                       resp |-> [NewResponse EXCEPT
                                    !.status = STORE_AND_UPDATE_STATUS],
                       async |-> TRUE, exc |-> None]
            ELSE [process |-> p2,
                  resp |-> [NewResponse EXCEPT !.status = STORE_STATUS],
                  async |-> FALSE, exc |-> None]
       ELSE [process |-> p1, resp |-> NewResponse, async |-> FALSE,
             exc |-> None]

\* _run_process without its except clause: the failure leaves it
RunFailed_Uncaught(resp, location, lineage, outputs, w2) ==
    [resp |-> resp, exc |-> Some(PyError("Exception")), written |-> None]

\* the except clause of _run_process (lines 703-722) for the response as the
\* failure left it
RunFailed(resp, location, lineage, outputs, w2) ==
    update_status(resp, "Process error", Some(-1), location, lineage, outputs, w2)

\* lines 700-702 once update_status('PyWPS Process finished', 100) has
\* given final: a failure of it is caught by the except clause
RunFinished(final, location, lineage, outputs, w2) ==
    IF ~IsNone(final.exc)
    THEN RunFailed(final.resp, location, lineage, outputs, w2)
    ELSE final

\* _run_process without lines 700-702: the percentage is left as the handler
\* left it
RunProcess_AsLeft(resp, handler, location, lineage, outputs, w1, w2) ==
    IF handler = "raised"
    THEN RunFailed(resp, location, lineage, outputs, w2)
    ELSE [resp |-> resp, exc |-> None, written |-> None]

\* Process._run_process after the handler has returned or raised (lines
\* 698-724): handler is "returned" or "raised"; w1 and w2 say whether the
\* write of the final and of the failure document succeeds.  Gives the
\* response, the failure that leaves _run_process (None: it returns) and the
\* document written last (None: none).
RunProcess(resp, handler, location, lineage, outputs, w1, w2) ==
    IF handler = "raised"
    THEN RunFailed(resp, location, lineage, outputs, w2)
    ELSE IF resp.status_percentage # 100
    THEN RunFinished(update_status(resp, "PyWPS Process finished", Some(100),
                                   location, lineage, outputs, w1),
                     location, lineage, outputs, w2)
    ELSE [resp |-> resp, exc |-> None, written |-> None]

-----------------------------------------------------------------------------
(* Service *)

\* is_reference.lower() == 'true' for the requested output o (lines 990-998)
IsReference(request, o) ==
    Lower(Get(request.outputs[o], S("asReference"), S("false"))) = S("true")

\* the requested outputs that ask for a reference
ReferenceOutputs(request) ==
    {o \in DOMAIN request.outputs : IsReference(request, o)}

\* the loop resetting the flag of the declared outputs it does not set
MarkOutputs_Resetting(process, request, ids) ==
    [process EXCEPT !.outputs =
        [i \in DOMAIN process.outputs |->
            IF process.outputs[i].identifier \in ids
            THEN [process.outputs[i] EXCEPT
                     !.as_reference = IsReference(request, process.outputs[i].identifier)]
            ELSE [process.outputs[i] EXCEPT !.as_reference = FALSE]]]

\* lines 1000-1002 for the requested outputs ids
MarkOutputs(process, request, ids) ==
    [process EXCEPT !.outputs =
        [i \in DOMAIN process.outputs |->
            IF process.outputs[i].identifier \in ids
            THEN [process.outputs[i] EXCEPT
                     !.as_reference = IsReference(request, process.outputs[i].identifier)]
            ELSE process.outputs[i]]]

\* lines 985-1002 of Service.execute.  The loop runs over a dictionary, so
\* when it raises the requested outputs it has already handled are some of
\* those that ask for no reference: done.
SetAsReference(process, request, done) ==
    IF request.raw THEN [process |-> process, exc |-> None]
    ELSE IF process.store_supported = "false" /\ ReferenceOutputs(request) # {}
    THEN [process |-> MarkOutputs(process, request, done),
          exc |-> Some(OGC("StorageNotSupported",
              "The storage of data is not supported for this process.", <<>>))]
    ELSE [process |-> MarkOutputs(process, request, DOMAIN request.outputs),
          exc |-> None]

\* what the loop may have handled before it raises
DoneBeforeRaise(request) ==
    SUBSET (DOMAIN request.outputs \ ReferenceOutputs(request))

\* what Service.execute has come to when the handler is about to be invoked
\* or a step has raised: exc is the failure (None: none), at names the step
\* that raised, request and process are the objects as the steps left them
\* (process None: untouched), tmp counts the temporary files created and
\* uuids the uuid4() values drawn
Reached(exc, at, request, process, tmp, resp, async, uuids) ==
    [exc |-> exc, at |-> at, request |-> request, process |-> process,
     tmp |-> tmp, resp |-> resp, async |-> async, uuids |-> uuids]

\* lines 1004-1008: Process.execute called, pe being what it gives; any
\* failure e of it is raised again as NoApplicableCode('Service error: %s' % e),
\* a description that stands as the description of e it quotes
ExecuteProcess(request, tmp, pe) ==
    IF ~IsNone(pe.exc)
    THEN Reached(Some(OGC("NoApplicableCode", Val(pe.exc).description, <<>>)),
                 "Process.execute", request, Some(pe.process), tmp, NewResponse,
                 FALSE, 1)
    ELSE Reached(None, "", request, Some(pe.process), tmp, pe.resp, pe.async, 1)

\* lines 985-1008, refs being what the loop over the requested outputs gives
ExecuteOutputs(request, tmp, refs, uuid) ==
    IF ~IsNone(refs.exc)
    THEN Reached(refs.exc, "outputs", request, Some(refs.process), tmp,
                 NewResponse, FALSE, 0)
    ELSE ExecuteProcess(request, tmp, ProcessExecute(refs.process, request, uuid))

\* lines 966-1008, inputs being what the loop over the declared inputs gives
ExecuteInputs(process, request, inputs, uuid, done) ==
    IF ~inputs.ok
    THEN Reached(Some(inputs.exc), "inputs", request, None, inputs.tmp,
                 NewResponse, FALSE, 0)
    ELSE ExecuteOutputs([request EXCEPT !.inputs = Some(inputs.value)],
                        inputs.tmp, SetAsReference(process, request, done), uuid)

\* Service.execute up to the invocation of the handler (lines 959-1008)
ServiceExecute(procs, request, uuid, web, done, py2) ==
    IF IsNone(request.identifier) \/ Val(request.identifier) \notin DOMAIN procs
    THEN Reached(Some(Exc("BadRequest", <<>>, "Unknown process", 400)), "lookup",
                 request, None, 0, NewResponse, FALSE, 0)
    ELSE ExecuteInputs(procs[Val(request.identifier)], request,
                       CheckInputs(procs[Val(request.identifier)], request,
                                   web, py2),
                       uuid, done)

\* the order in which the registry dictionary lists the processes
RECURSIVE SetToSeq(_)
SetToSeq(set) ==
    IF set = {} THEN <<>>
    ELSE LET x == CHOOSE y \in set : TRUE IN <<x>> \o SetToSeq(set \ {x})

RECURSIVE FirstUnknown(_, _, _)
FirstUnknown(procs, identifiers, i) ==
    IF i > Len(identifiers) THEN 0
    ELSE IF identifiers[i] \notin DOMAIN procs THEN i
    ELSE FirstUnknown(procs, identifiers, i + 1)

\* the description "Unknown process %r" % identifier: it stands as the text
\* of the identifier it names
UnknownProcess(identifier) == IF identifier = <<>> THEN "" ELSE identifier[1]

\* describe with the keyword compared as it is written: 'ALL' names a process
describe_ExactKeyword(procs, identifiers) ==
    IF IsNone(identifiers) \/ Val(identifiers) = <<>>
    THEN Failed(OGC("MissingParameterValue", "", S("identifier")))
    ELSE IF \E i \in DOMAIN Val(identifiers) : Val(identifiers)[i] = S("all")
    THEN Returned(SetToSeq(DOMAIN procs))
    ELSE IF FirstUnknown(procs, Val(identifiers), 1) # 0
    THEN Failed(OGC("InvalidParameterValue",
                    UnknownProcess(Val(identifiers)[FirstUnknown(procs, Val(identifiers), 1)]),
                    S("identifier")))
    ELSE Returned(Val(identifiers))

\* Service.describe(identifiers): the identifiers described, in order
describe(procs, identifiers) ==
    IF IsNone(identifiers) \/ Val(identifiers) = <<>>
    THEN Failed(OGC("MissingParameterValue", "", S("identifier")))
    ELSE IF \E i \in DOMAIN Val(identifiers) : Lower(Val(identifiers)[i]) = S("all")
    THEN Returned(SetToSeq(DOMAIN procs))
    ELSE IF FirstUnknown(procs, Val(identifiers), 1) # 0
    THEN Failed(OGC("InvalidParameterValue",
                    UnknownProcess(Val(identifiers)[FirstUnknown(procs, Val(identifiers), 1)]),
                    S("identifier")))
    ELSE Returned(Val(identifiers))

\* the except clause of Service.__call__ (lines 1040-1044): an HTTPException
\* becomes the response, any other failure leaves __call__
Caught(e) ==
    IF ~IsHTTPException(e) THEN e
    ELSE IF ~IsNoApplicableCode(e)
    THEN Exc("NoApplicableCode", <<>>, e.description, e.code)
    ELSE e

\* what Service.__call__ gives for a request: type is "Capabilities",
\* "ProcessDescriptions", "ExecuteResponse", "RawData", "Error" (an exception
\* returned as the response) or "Escaped" (a failure that left __call__);
\* raised is the failure as it was raised, at the step that raised it, and
\* invoked says whether the process handler was invoked for the request
Outcome(type, body, exc, raised, at, invoked) ==
    [type |-> type, body |-> body, exc |-> exc, raised |-> raised, at |-> at,
     invoked |-> invoked]

NoOutcome == Outcome("", None, PyError(""), PyError(""), "", FALSE)

Answer(type, body, invoked) ==
    Outcome(type, Some(body), PyError(""), PyError(""), "", invoked)

Failure(e, at, invoked) ==
    Outcome(IF IsHTTPException(e) THEN "Error" ELSE "Escaped", None, Caught(e),
            e, at, invoked)

\* the outcome of a DescribeProcess request, d being what describe gives
Described(d) ==
    IF d.ok THEN Answer("ProcessDescriptions", d.value, FALSE)
    ELSE Failure(d.exc, "describe", FALSE)

-----------------------------------------------------------------------------
(* The server: its registry and the requests and handlers it is run with *)

MaxRequests == 2     \* HTTP requests served in one run
MaxUpdates == 2      \* update_status calls the handlers make

\* the processes the Service is constructed with
Registry ==
    (S("full") :> Process(S("full"),
                      <<[identifier |-> S("b"), type |-> "ComplexInput"],
                        [identifier |-> S("a"), type |-> "LiteralInput"]>>,
                      <<S("o1"), S("o2")>>, TRUE, TRUE))
    @@ (S("store") :> Process(S("store"), <<>>, <<S("o1")>>, TRUE, FALSE))
    @@ (S("plain") :> Process(S("plain"), <<>>, <<S("o1")>>, FALSE, FALSE))

NoDoc == [wellformed |-> FALSE, root |-> "", version |-> None,
          identifiers |-> <<>>, inputs |-> <<>>, response_document |-> None,
          raw_data_output |-> <<>>]

NoRequest == [method |-> "", args |-> <<>>, body |-> NoDoc]

\* the query string of a GET request: the parameters whose value is not None
RECURSIVE Args(_)
Args(pairs) ==
    IF pairs = <<>> THEN <<>>
    ELSE IF IsNone(Head(pairs)[2]) THEN Args(Tail(pairs))
    ELSE <<<<Head(pairs)[1], Val(Head(pairs)[2])>>>> \o Args(Tail(pairs))

HttpGet(pairs) == [method |-> "GET", args |-> Args(pairs), body |-> NoDoc]

HttpPost(doc) == [method |-> "POST", args |-> <<>>, body |-> doc]

\* a GET Execute request
GetExecute(identifier, store, status, lineage, inputs, document, raw) ==
    HttpGet(<< <<"service", Some(S("WPS"))>>, <<"request", Some(S("Execute"))>>,
           <<"version", Some(S("1.0.0"))>>, <<"identifier", identifier>>,
           <<"storeExecuteResponse", store>>, <<"status", status>>,
           <<"lineage", lineage>>, <<"DataInputs", inputs>>,
           <<"ResponseDocument", document>>, <<"RawDataOutput", raw>> >>)

\* what the network and the temporary directory do to a referenced input:
\* whether urlopen and read succeed, the Content-Length header of the response
\* (None: it has none), the size of the payload in bytes (of one-byte
\* characters, so that PY3's count of characters written is the same number)
\* and whether the write to the temporary file succeeds
Webs ==
    { [fetch_ok |-> FALSE, content_length |-> None, size |-> 0, write_ok |-> TRUE],
      [fetch_ok |-> TRUE, content_length |-> None, size |-> 1, write_ok |-> TRUE],
      [fetch_ok |-> TRUE, content_length |-> None, size |-> byte_size + 1,
       write_ok |-> TRUE],
      [fetch_ok |-> TRUE, content_length |-> Some(byte_size + 1),
       size |-> byte_size + 1, write_ok |-> TRUE],
      [fetch_ok |-> TRUE, content_length |-> Some(0), size |-> byte_size + 1,
       write_ok |-> TRUE],
      [fetch_ok |-> TRUE, content_length |-> Some(1), size |-> 1,
       write_ok |-> FALSE] }

\* the network is not used: the request names no reference
NoWeb == [fetch_ok |-> FALSE, content_length |-> None, size |-> 0,
          write_ok |-> FALSE]

\* whether serving the request fetches a reference: some submitted input
\* has a non-empty href
FetchesReference(parsed) ==
    /\ parsed.ok
    /\ ~IsNone(parsed.req.inputs)
    /\ \E k \in DOMAIN Val(parsed.req.inputs) :
          Truthy(GetOpt(Val(parsed.req.inputs)[k], S("href")))

\* the percentages a handler reports; None: update_status(message)
Percentages == {None, Some(0), Some(-1), Some(50), Some(100)}


GoodInputs == <<"b", "=", "1", ";", "a", "=", "2">>

\* DataInputs parameters for the process "full", which declares b then a
InputStrings ==
    { None, Some(GoodInputs), Some(<<"b", "=", "1">>), Some(<<"a", "=", "2">>),
      Some(<<"b", "=", "payload-over-limit">>),
      Some(<<"b", "=", "@", "href", "=", "u", ";", "a", "=", "2">>),
      Some(<<"b", "=", "@", "href", "=", "u">>) }

\* <<ResponseDocument, RawDataOutput>> parameters
Forms ==
    { <<None, None>>,
      <<Some(<<"o1", "=">>), None>>,
      <<Some(<<"o1", "=", "@", "asReference", "=", "True">>), None>>,
      <<None, Some(<<"o1">>)>>,
      <<None, Some(<<"zz">>)>>,
      <<Some(<<"o1", "=">>), Some(<<"o1">>)>>,
      <<Some(<<>>), Some(<<"o1">>)>>,
      <<None, Some(<<>>)>> }

Flags == {None, Some(S("true"))}

\* a POST document
XmlDoc(root, version, identifiers, inputs, response_document, raw_data_output) ==
    [wellformed |-> TRUE, root |-> root, version |-> version,
     identifiers |-> identifiers, inputs |-> inputs,
     response_document |-> response_document,
     raw_data_output |-> raw_data_output]

\* a wps:Input element
InputEl(identifier, form, text, href) ==
    [identifiers |-> <<identifier>>, form |-> form, text |-> text, href |-> href]

\* a wps:ResponseDocument element with one wps:Output
ResponseDocumentEl(store, status, output, asReference) ==
    [lineage |-> None, storeExecuteResponse |-> store, status |-> status,
     outputs |-> <<[identifiers |-> <<output>>, asReference |-> asReference]>>]

\* a wps:RawDataOutput element
RawDataOutputEl(output) == [identifiers |-> <<output>>]

ExecuteDoc(identifier, inputs, response_document, raw_data_output) ==
    XmlDoc("Execute", Some(S("1.0.0")), <<identifier>>, inputs,
           response_document, raw_data_output)

InputsAB(formB, href) ==
    <<InputEl(S("b"), formB, S("1"), href), InputEl(S("a"), "literal", S("2"), <<>>)>>

\* the flag and form combinations of a GET Execute request
GetForms ==
    { GetExecute(Some(id), store, status, None,
                 IF id = S("full") THEN Some(GoodInputs) ELSE None, f[1], f[2]) :
        id \in DOMAIN Registry, store \in Flags, status \in Flags, f \in Forms }

GetRequests ==
    { GetExecute(Some(S("full")), None, None, None, i, None, None) :
        i \in InputStrings }
    \cup { GetExecute(Some(S("full")), Some(S("true")), Some(S("true")), None,
                      Some(GoodInputs), Some(<<"o1", "=">>), None),
           GetExecute(Some(S("store")), Some(S("true")), None, Some(S("true")),
                      None, Some(<<"o1", "=", "@", "asReference", "=", "True">>),
                      None),
           GetExecute(Some(S("store")), Some(S("true")), Some(S("true")), None,
                      None, None, None),
           GetExecute(Some(S("plain")), Some(S("true")), None, None, None, None,
                      None),
           GetExecute(Some(S("plain")), None, Some(S("true")), None, None, None,
                      None),
           GetExecute(Some(S("store")), Some(S("True")), Some(S("true")), None,
                      None, None, None),
           GetExecute(Some(S("store")), None, None, None, None,
                      Some(<<"o1", "=">>), None),
           GetExecute(Some(S("plain")), None, None, None, None,
                      Some(<<"o1", "=", "@", "asReference", "=", "TRUE">>), None),
           GetExecute(Some(S("plain")), None, None, None, None, None,
                      Some(<<"o1">>)),
           GetExecute(Some(S("plain")), None, None, None, None, None,
                      Some(<<"zz">>)),
           GetExecute(Some(S("nope")), None, None, None, None, None, None),
           GetExecute(None, None, None, None, None, None, None),
           HttpGet(<<>>),
           HttpGet(<< <<"service", Some(S("WPS"))>>,
                      <<"Request", Some(S("GetCapabilities"))>> >>),
           HttpGet(<< <<"service", Some(S("WPS"))>>,
                      <<"request", Some(S("DescribeProcess"))>>,
                      <<"version", Some(S("1.0.0"))>>,
                      <<"identifier", Some(<<"nope", ",", "ALL">>)>> >>),
           HttpGet(<< <<"service", Some(S("WPS"))>>,
                      <<"request", Some(S("DescribeProcess"))>>,
                      <<"version", Some(S("1.0.0"))>>,
                      <<"identifier", Some(<<"full", ",", "nope">>)>> >>) }

\* GET requests that fail one of the parser's checks
BadGets ==
    { HttpGet(<< <<"WSDL", Some(<<>>)>> >>),
      HttpGet(<< <<"service", Some(S("WFS"))>> >>),
      HttpGet(<< <<"SERVICE", Some(S("wps"))>> >>),
      HttpGet(<< <<"service", Some(S("WPS"))>>, <<"request", Some(S("Foo"))>> >>),
      HttpGet(<< <<"service", Some(S("WPS"))>>, <<"request", Some(S("Execute"))>>,
                 <<"version", Some(S("2.0.0"))>> >>),
      HttpGet(<< <<"service", Some(S("WPS"))>>,
                 <<"request", Some(S("DescribeProcess"))>> >>) }

PostRequests ==
    { HttpPost(NoDoc),
      HttpPost(XmlDoc("DescribeProcess", Some(S("1.0.0")), <<S("full")>>, <<>>,
                      None, <<>>)),
      HttpPost(XmlDoc("Execute", Some(S("1.0.0")), <<>>, <<>>, None, <<>>)),
      HttpPost(ExecuteDoc(S("full"), <<>>, None, <<>>)),
      HttpPost(ExecuteDoc(S("full"), InputsAB("literal", <<>>), None, <<>>)),
      HttpPost(ExecuteDoc(S("full"), InputsAB("complex", <<>>), None, <<>>)),
      HttpPost(ExecuteDoc(S("full"), InputsAB("reference", S("u")), None, <<>>)),
      HttpPost(ExecuteDoc(S("full"), InputsAB("bbox", <<>>), None, <<>>)),
      HttpPost(ExecuteDoc(S("store"), <<>>,
                          Some(ResponseDocumentEl(Some(S("true")), None, S("o1"),
                                                  Some(S("true")))), <<>>)),
      HttpPost(ExecuteDoc(S("store"), <<>>,
                          Some(ResponseDocumentEl(Some(S("true")), None, S("o1"), None)),
                          <<RawDataOutputEl(S("o1"))>>)),
      [method |-> "PUT", args |-> <<>>, body |-> NoDoc] }

\* POST documents the parser alone tells apart
OtherPosts ==
    { HttpPost(XmlDoc("GetCapabilities", None, <<>>, <<>>, None, <<>>)),
      HttpPost(XmlDoc("DescribeProcess", None, <<>>, <<>>, None, <<>>)),
      HttpPost(XmlDoc("Capabilities", None, <<>>, <<>>, None, <<>>)),
      HttpPost(ExecuteDoc(S("full"), InputsAB("complex_text", <<>>), None, <<>>)),
      HttpPost(ExecuteDoc(S("full"), InputsAB("reference", <<>>), None, <<>>)),
      HttpPost(ExecuteDoc(S("full"), InputsAB("literal", <<>>),
                          Some(ResponseDocumentEl(Some(S("true")), Some(S("true")),
                                                  S("o1"), None)),
                          <<RawDataOutputEl(S("o1"))>>)),
      HttpPost(ExecuteDoc(S("plain"), <<>>, None, <<RawDataOutputEl(S("o1"))>>)) }

\* the requests the server is sent
Requests == GetRequests \cup PostRequests

\* the values of the version parameter or attribute: absent, empty, and
\* strings that are or are not '1.0.0'
Versions == {None, Some(<<>>), Some(S("1.0.0")), Some(S("2.0.0")), Some(S("1.0"))}

\* DescribeProcess and Execute requests, GET and POST, over the versions
VersionRequests ==
    { HttpGet(<< <<"service", Some(S("WPS"))>>, <<"request", Some(S(op))>>,
                 <<"Version", v>>, <<"identifier", Some(S("plain"))>> >>) :
        op \in {"DescribeProcess", "execute"}, v \in Versions }
    \cup { HttpPost(XmlDoc(root, v, <<S("plain")>>, <<>>, None, <<>>)) :
             root \in {"DescribeProcess", "Execute"}, v \in Versions }

\* GET requests over the WSDL, service and request parameters: each absent,
\* empty, wrong or right, under names in upper case
OrderRequests ==
    { HttpGet(<< <<"WSDL", wsdl>>, <<"SERVICE", service>>, <<"REQUEST", request>> >>) :
        wsdl \in {None, Some(<<>>)},
        service \in {None, Some(<<>>), Some(S("WFS")), Some(S("wPs"))},
        request \in {None, Some(<<>>), Some(S("Foo")), Some(S("GetCapabilities"))} }

MaxEntries == 2      \* entries of a DataInputs string

\* the entries of a DataInputs string: well-formed ones, with and without
\* attributes, and ones that fail the split of a segment
KvpEntryTexts ==
    { <<"a", "=", "1">>, <<"b", "=", "2">>,
      <<"a", "=", "1", "@", "x", "=", "2">>,
      <<"a", "=", "1", "@", "data", "=", "2">>,
      <<"a">>, <<"a", "=", "1", "=", "2">>, <<"a", "=", "1", "@", "x">>, <<>> }

\* the strings of n entries joined by ';'
RECURSIVE KvpStringsOf(_)
KvpStringsOf(n) ==
    IF n = 1 THEN KvpEntryTexts
    ELSE { s \o <<";">> \o e : s \in KvpStringsOf(n - 1), e \in KvpEntryTexts }

\* GET Execute requests over the DataInputs strings
KvpRequests ==
    { GetExecute(Some(S("plain")), None, None, None, Some(s), None, None) :
        s \in UNION { KvpStringsOf(n) : n \in 1..MaxEntries } }

\* the requests the parser is tried on
ParserRequests ==
    Requests \cup GetForms \cup BadGets \cup OtherPosts \cup VersionRequests
    \cup OrderRequests \cup KvpRequests

\* WPSRequest(h, py2) for each request the server is sent, worked out once
Constructed == [h \in Requests |-> [py2 \in BOOLEAN |-> WPSRequest(h, py2)]]

\* the requests whose inputs name a reference the server fetches
Fetching == {h \in Requests : FetchesReference(Constructed[h][FALSE])}

\* whether serving the request h depends on the interpreter generation:
\* the parser reads a bounding box under Python 2 only (line 78), and the
\* size of a reference is measured differently (lines 183-186)
BuildMatters(h) ==
    \/ Constructed[h][TRUE] # Constructed[h][FALSE]
    \/ h \in Fetching

\* the interpreter generations the request h can meet in the build b
Builds(h, b) ==
    IF ~BuildMatters(h) THEN {FALSE}
    ELSE IF IsNone(b) THEN BOOLEAN ELSE {Val(b)}

-----------------------------------------------------------------------------
(* FileStorage (src/pywps/storage.py).  A disk is the file system of the output
   directory: the platform, its free space in bytes and the size of its
   blocks.  A source file has a size in bytes (st_size) and a block size
   (st_blksize). *)

PATH == 0

\* get_free_space(folder): the free bytes on Windows, elsewhere f_bfree, the
\* number of free blocks
get_free_space(disk) ==
    IF disk.platform = "Windows" THEN disk.free_bytes
    ELSE disk.free_bytes \div disk.frsize

\* math.ceil(file_size / float(file_block_size)) * file_block_size
actual_file_size(file_size, file_block_size) ==
    ((file_size + file_block_size - 1) \div file_block_size) * file_block_size

\* urljoin(self.output_url, just_file_name), the URL being its path segments:
\* the name replaces the last segment (the empty one of a URL ending in '/')
urljoin(base, name) == SubSeq(base, 1, Len(base) - 1) \o <<name>>

\* FileStorage.store(output) for a source file of the given size and block
\* size; name is the name mkstemp draws.  Gives the failure raised (None:
\* none), the value returned and the file created in the output directory.
store(file_size, file_block_size, disk, output_url, name) ==
    IF get_free_space(disk) < actual_file_size(file_size, file_block_size)
    THEN [raised |-> Some(OGC("NotEnoughStorage", "Not enough space", <<>>)),
          value |-> None, copy |-> None]
    ELSE [raised |-> None,
          value |-> Some(<<PATH, name, urljoin(output_url, name)>>),
          copy |-> Some([name |-> name, size |-> file_size])]

MaxStores == 2       \* calls of FileStorage.store

\* the disks FileStorage is run on
Disks ==
    [platform : {"Linux", "Windows"}, free_bytes : {0, 4096, 8192, 65536},
     frsize : {4096}]

NoStored ==
    [calls |-> 0, file_size |-> 0, file_block_size |-> 1,
     disk |-> [platform |-> "", free_bytes |-> 0, frsize |-> 1],
     output_url |-> <<>>, raised |-> None, value |-> None, copies |-> <<>>]

-----------------------------------------------------------------------------
(* The state machine *)

NoFinished == [uuid |-> 0, handler |-> "", status |-> NO_STATUS,
               resp |-> NewResponse, exc |-> None]

Init ==
    /\ PY2 = None
    /\ processes = Registry
    /\ files = EmptyDict
    /\ tmpfiles = 0
    /\ nuuid = 0
    /\ nreq = 0
    /\ nupdates = 0
    /\ http = NoRequest
    /\ wps_request = None
    /\ pc = "idle"
    /\ cur = 0
    /\ tasks = EmptyDict
    /\ finished = NoFinished
    /\ fetched = NoWeb
    /\ stored = NoStored
    /\ updated = NoUpdate
    /\ outcome = NoOutcome

\* an execution whose handler has been invoked: pc is "handler" while the
\* handler runs, then "returned" or "raised".  A spawned task (async) works on
\* its own copy of the Process object: location and outputs; a synchronous
\* one works on the registered object.
Task(process, x) ==
    [process |-> process.identifier, async |-> x.async, resp |-> x.resp,
     location |-> process.status_location, lineage |-> x.request.lineage,
     outputs |-> IF x.async THEN process.outputs ELSE <<>>,
     pc |-> "handler"]

\* the output objects the handler of execution u writes to
TaskOutputs(u) ==
    IF tasks[u].async THEN tasks[u].outputs
    ELSE processes[tasks[u].process].outputs

\* Service.execute, x being what it has come to for the request req
Execute(req, x) ==
    /\ wps_request' = Some(x.request)
    /\ processes' = IF IsNone(x.process) THEN processes
                    ELSE [processes EXCEPT ![Val(req.identifier)] = Val(x.process)]
    /\ tmpfiles' = tmpfiles + x.tmp
    /\ nuuid' = nuuid + x.uuids
    /\ IF ~IsNone(x.exc)
       THEN /\ outcome' = Failure(Val(x.exc), x.at, FALSE)
            /\ UNCHANGED <<pc, cur, tasks>>
       ELSE /\ outcome' = NoOutcome
            /\ tasks' = Put(tasks, nuuid + 1, Task(Val(x.process), x))
            /\ cur' = nuuid + 1
            /\ pc' = IF x.async THEN "respond" ELSE "handler"

\* Service.__call__ for the request parsed
Serve(parsed, web, py2) ==
    IF ~parsed.ok
    THEN /\ outcome' = Failure(parsed.exc, "WPSRequest", FALSE)
         /\ wps_request' = None
         /\ UNCHANGED <<processes, tmpfiles, nuuid, pc, cur, tasks>>
    ELSE IF parsed.req.operation = S("getcapabilities")
    THEN /\ outcome' = Answer("Capabilities", SetToSeq(DOMAIN processes), FALSE)
         /\ wps_request' = Some(parsed.req)
         /\ UNCHANGED <<processes, tmpfiles, nuuid, pc, cur, tasks>>
    ELSE IF parsed.req.operation = S("describeprocess")
    THEN /\ outcome' = Described(describe(processes, parsed.req.identifiers))
         /\ wps_request' = Some(parsed.req)
         /\ UNCHANGED <<processes, tmpfiles, nuuid, pc, cur, tasks>>
    ELSE \E done \in DoneBeforeRaise(parsed.req) :
            Execute(parsed.req,
                    ServiceExecute(processes, parsed.req, nuuid + 1, web, done, py2))

\* Service.__call__ up to the invocation of the handler; for a GetCapabilities
\* or DescribeProcess request, or a request that fails, up to its return
Receive(h, web, py2) ==
    /\ pc = "idle"
    /\ nreq < MaxRequests
    /\ nreq' = nreq + 1
    /\ http' = h
    /\ PY2' = IF BuildMatters(h) THEN Some(py2) ELSE PY2
    /\ Serve(Constructed[h][py2], web, py2)
    /\ finished' = NoFinished
    /\ fetched' = web
    /\ UNCHANGED <<stored, updated>>
    /\ UNCHANGED <<nupdates, files>>

\* the handler calls wps_response.update_status(message, percentage)
HandlerUpdate(u, percentage, writable) ==
    /\ u \in DOMAIN tasks
    /\ tasks[u].pc = "handler"
    /\ nupdates < MaxUpdates
    /\ nupdates' = nupdates + 1
    /\ LET t == tasks[u]
           r == update_status(t.resp, "working", percentage, t.location,
                              t.lineage, TaskOutputs(u), writable)
       IN /\ tasks' = [tasks EXCEPT ![u] =
                         [t EXCEPT !.resp = r.resp,
                                   !.pc = IF IsNone(r.exc) THEN "handler"
                                          ELSE "raised"]]
          /\ files' = IF IsNone(r.written) THEN files
                      ELSE Put(files, t.location, Val(r.written))
    /\ UNCHANGED <<updated, stored, fetched, PY2, processes, tmpfiles, nuuid, nreq, http, wps_request,
                   pc, cur, finished, outcome>>

\* the handler stores a value in the data of each of wps_response.outputs;
\* the value names the execution that produced it
SetData(outputs, u) == [i \in DOMAIN outputs |-> [outputs[i] EXCEPT !.data = Some(u)]]

HandlerSetOutputs(u) ==
    /\ u \in DOMAIN tasks
    /\ tasks[u].pc = "handler"
    /\ TaskOutputs(u) # SetData(TaskOutputs(u), u)
    /\ IF tasks[u].async
       THEN /\ tasks' = [tasks EXCEPT ![u].outputs = SetData(@, u)]
            /\ UNCHANGED processes
       ELSE /\ processes' = [processes EXCEPT
                                ![tasks[u].process].outputs = SetData(@, u)]
            /\ UNCHANGED tasks
    /\ UNCHANGED <<updated, stored, fetched, PY2, nupdates, files, tmpfiles, nuuid, nreq, http, wps_request,
                   pc, cur, finished, outcome>>

\* the handler returns wps_response
HandlerReturn(u) ==
    /\ u \in DOMAIN tasks
    /\ tasks[u].pc = "handler"
    /\ tasks' = [tasks EXCEPT ![u].pc = "returned"]
    /\ UNCHANGED <<updated, stored, fetched, PY2, nupdates, processes, files, tmpfiles, nuuid, nreq, http,
                   wps_request, pc, cur, finished, outcome>>

\* the handler raises an Exception
HandlerRaise(u) ==
    /\ u \in DOMAIN tasks
    /\ tasks[u].pc = "handler"
    /\ tasks' = [tasks EXCEPT ![u].pc = "raised"]
    /\ UNCHANGED <<updated, stored, fetched, PY2, nupdates, processes, files, tmpfiles, nuuid, nreq, http,
                   wps_request, pc, cur, finished, outcome>>


\* d without the key k
Remove(d, k) == [x \in DOMAIN d \ {k} |-> d[x]]

\* the declared outputs a raw request names (lines 1012-1015): the loop
\* returns the first it finds, in the order of the request's dictionary
RawCandidates(process, request) ==
    {i \in DOMAIN process.outputs :
        process.outputs[i].identifier \in DOMAIN request.outputs}

\* lines 1010-1020 of Service.execute and the rendering of what it returns
\* (WPSResponse.__call__), for the response resp: pick is the declared output
\* a raw request gets, 0 when it names none; writable says whether a write
\* by _construct_doc succeeds
Respond(process, request, resp, pick, writable) ==
    LET built == construct_doc(resp, process.status_location, request.lineage,
                               process.outputs)
    IN IF request.raw
       THEN IF pick = 0
            THEN Failure(OGC("InvalidParameterValue", "", <<>>), "raw", TRUE)
            ELSE Answer("RawData", process.outputs[pick].data, TRUE)
       ELSE IF built.writes /\ ~writable
       THEN Failure(OGC("NoApplicableCode", "Writing Response Document failed",
                        <<>>), "render", TRUE)
       ELSE Answer("ExecuteResponse", built.doc, TRUE)

Picks(process, request) ==
    IF RawCandidates(process, request) = {} THEN {0}
    ELSE RawCandidates(process, request)

\* the rest of Process._run_process once the handler of execution u has
\* returned or raised; for a synchronous execution also the rest of
\* Service.__call__
RunProcessEnd(u, w1, w2) ==
    /\ u \in DOMAIN tasks
    /\ tasks[u].pc \in {"returned", "raised"}
    /\ LET t == tasks[u]
           r == RunProcess(t.resp, t.pc, t.location, t.lineage, TaskOutputs(u),
                           w1, w2)
           process == processes[t.process]
           request == Val(wps_request)
       IN /\ files' = IF IsNone(r.written) THEN files
                      ELSE Put(files, t.location, Val(r.written))
          /\ finished' = [uuid |-> u, handler |-> t.pc, status |-> t.resp.status,
                          resp |-> r.resp, exc |-> r.exc]
          /\ tasks' = Remove(tasks, u)
          /\ IF t.async
             THEN UNCHANGED <<pc, cur, outcome>>
             ELSE /\ pc' = "idle"
                  /\ cur' = 0
                  /\ IF ~IsNone(r.exc)
                     THEN outcome' = Failure(OGC("NoApplicableCode", "Service error",
                                                 <<>>), "Process.execute", TRUE)
                     ELSE \E pick \in Picks(process, request) :
                              outcome' = Respond(process, request, r.resp, pick, TRUE)
    /\ UNCHANGED <<updated, stored, fetched, PY2, nupdates, processes, tmpfiles, nuuid, nreq, http, wps_request>>

\* the HTTP-serving stack after it has spawned the task of execution cur:
\* Process.execute returns the WPSResponse as it was at the hand-off, and
\* Service.__call__ renders it
RespondAccepted(writable) ==
    /\ pc = "respond"
    /\ LET process == processes[Val(Val(wps_request).identifier)]
           request == Val(wps_request)
           resp == [NewResponse EXCEPT !.status = STORE_AND_UPDATE_STATUS]
           built == construct_doc(resp, process.status_location, request.lineage,
                                  process.outputs)
       IN /\ \E pick \in Picks(process, request) :
                outcome' = Respond(process, request, resp, pick, writable)
          /\ files' = IF ~request.raw /\ built.writes /\ writable
                      THEN Put(files, process.status_location, built.doc)
                      ELSE files
    /\ pc' = "idle"
    /\ cur' = 0
    /\ UNCHANGED <<updated, stored, fetched, PY2, nupdates, processes, tmpfiles, nuuid, nreq, http, wps_request,
                   tasks, finished>>

Next ==
    \/ /\ pc = "idle"
       /\ \E h \in Requests :
             \E py2 \in Builds(h, PY2) :
                 \E web \in IF h \in Fetching THEN Webs ELSE {NoWeb} :
                     Receive(h, web, py2)
    \/ \E u \in DOMAIN tasks, p \in Percentages, w \in BOOLEAN :
          HandlerUpdate(u, p, w)
    \/ \E u \in DOMAIN tasks : HandlerSetOutputs(u)
    \/ \E u \in DOMAIN tasks : HandlerReturn(u)
    \/ \E u \in DOMAIN tasks : HandlerRaise(u)
    \/ \E u \in DOMAIN tasks, w1 \in BOOLEAN, w2 \in BOOLEAN : RunProcessEnd(u, w1, w2)
    \/ \E w \in BOOLEAN : RespondAccepted(w)

Spec == Init /\ [][Next]_vars

-----------------------------------------------------------------------------
(* The parser alone: WPSRequest(http_request) on a wider set of requests *)

\* WPSRequest(h, py2) for each request the parser is tried on, worked out once
ParserConstructed ==
    [h \in ParserRequests |-> [py2 \in BOOLEAN |-> WPSRequest(h, py2)]]

\* WPSRequest.__init__ for the request h, in the build py2
Construct(h, py2) ==
    /\ py2 \in (IF IsNone(PY2) THEN BOOLEAN ELSE {Val(PY2)})
    /\ PY2' = Some(py2)
    /\ http' = h
    /\ wps_request' = IF ParserConstructed[h][py2].ok
                      THEN Some(ParserConstructed[h][py2].req)
                      ELSE None
    /\ outcome' = IF ParserConstructed[h][py2].ok THEN NoOutcome
                  ELSE Failure(ParserConstructed[h][py2].exc, "WPSRequest", FALSE)
    /\ UNCHANGED <<updated, stored, fetched, processes, files, tmpfiles, nuuid, nreq, nupdates, pc, cur,
                   tasks, finished>>

ParseNext == \E h \in ParserRequests, py2 \in BOOLEAN : Construct(h, py2)

ParseSpec == Init /\ [][ParseNext]_vars

-----------------------------------------------------------------------------
(* DescribeProcess alone: Service.__call__ on DescribeProcess requests over
   the identifier lists *)

MaxIdentifiers == 2  \* identifiers of a DescribeProcess request

\* identifiers: registered ones, unregistered ones and the keyword
IdentifierTexts == {S("full"), S("plain"), S("nope"), S("zz"), S("all"), S("ALL")}

\* the identifier lists of n identifiers
RECURSIVE IdentifierLists(_)
IdentifierLists(n) ==
    IF n = 0 THEN {<<>>}
    ELSE { Append(l, id) : l \in IdentifierLists(n - 1), id \in IdentifierTexts }

\* the list as the identifier parameter of a GET request writes it
RECURSIVE CommaJoined(_)
CommaJoined(l) ==
    IF l = <<>> THEN <<>>
    ELSE IF Len(l) = 1 THEN l[1]
    ELSE l[1] \o <<",">> \o CommaJoined(Tail(l))

\* DescribeProcess requests, GET and POST, over the identifier lists; the GET
\* ones also without the identifier parameter
DescribeRequests ==
    { HttpGet(<< <<"service", Some(S("WPS"))>>,
                 <<"request", Some(S("DescribeProcess"))>>,
                 <<"version", Some(S("1.0.0"))>>, <<"identifier", ids>> >>) :
        ids \in {None} \cup { Some(CommaJoined(l)) :
                                l \in UNION { IdentifierLists(n) : n \in 0..MaxIdentifiers } } }
    \cup { HttpPost(XmlDoc("DescribeProcess", Some(S("1.0.0")), l, <<>>, None, <<>>)) :
             l \in UNION { IdentifierLists(n) : n \in 0..MaxIdentifiers } }

\* WPSRequest(h) for each of them, worked out once
DescribeConstructed == [h \in DescribeRequests |-> WPSRequest(h, FALSE)]

\* Service.__call__ for the DescribeProcess request h
ReceiveDescribe(h) ==
    /\ pc = "idle"
    /\ nreq < MaxRequests
    /\ nreq' = nreq + 1
    /\ http' = h
    /\ Serve(DescribeConstructed[h], NoWeb, FALSE)
    /\ finished' = NoFinished
    /\ UNCHANGED <<updated, stored, fetched, PY2, nupdates, files>>

DescribeNext == \E h \in DescribeRequests : ReceiveDescribe(h)

DescribeSpec == Init /\ [][DescribeNext]_vars

-----------------------------------------------------------------------------
(* FileStorage alone: store called for source files and disks *)

\* an output object calls FileStorage.store(output), r being what store gives
Store(file_size, file_block_size, disk, output_url, r) ==
    /\ stored.calls < MaxStores
    /\ stored' = [calls |-> stored.calls + 1, file_size |-> file_size,
                  file_block_size |-> file_block_size, disk |-> disk,
                  output_url |-> output_url, raised |-> r.raised,
                  value |-> r.value,
                  copies |-> IF IsNone(r.copy) THEN stored.copies
                             ELSE Append(stored.copies, Val(r.copy))]
    /\ UNCHANGED <<PY2, processes, files, tmpfiles, nuuid, nreq, nupdates, http,
                   wps_request, pc, cur, tasks, finished, fetched, updated, outcome>>

\* the source files have sizes around a block of 4096 bytes; the configured
\* output URL ends in '/' or does not
StoreNext ==
    \E file_size \in {0, 1, 4096, 4097}, file_block_size \in {512, 4096},
       disk \in Disks,
       output_url \in { <<"host:80", "outputs", "">>, <<"host:80", "outputs">> } :
        Store(file_size, file_block_size, disk, output_url,
              store(file_size, file_block_size, disk, output_url,
                    Len(stored.copies) + 1))

StoreSpec == Init /\ [][StoreNext]_vars

-----------------------------------------------------------------------------
(* WPSResponse alone: update_status called on a response at each level *)

\* Process.execute sets the level of the response it has constructed (lines
\* 679 and 682) before anything calls update_status
SetLevel(level) ==
    /\ nupdates = 0
    /\ updated.after.status = NO_STATUS
    /\ updated' = [updated EXCEPT !.before.status = level, !.after.status = level]
    /\ UNCHANGED <<PY2, processes, files, tmpfiles, nuuid, nreq, nupdates, http,
                   wps_request, pc, cur, tasks, finished, fetched, stored, outcome>>

\* update_status(message, percentage) on the response as the last call left
\* it, for a process whose status_location is 1; writable says whether open()
\* and write() succeed
UpdateStatus(message, percentage, writable) ==
    /\ nupdates < MaxUpdates
    /\ nupdates' = nupdates + 1
    /\ LET r == update_status(updated.after, message, percentage, 1, None,
                              <<>>, writable)
       IN /\ updated' = [before |-> updated.after, message |-> message,
                         percentage |-> percentage, writable |-> writable,
                         after |-> r.resp, exc |-> r.exc, written |-> r.written]
          /\ files' = IF IsNone(r.written) THEN files
                      ELSE Put(files, 1, Val(r.written))
    /\ UNCHANGED <<PY2, processes, tmpfiles, nuuid, nreq, http, wps_request, pc,
                   cur, tasks, finished, fetched, stored, outcome>>

UpdateNext ==
    \/ \E level \in {STORE_STATUS, STORE_AND_UPDATE_STATUS} : SetLevel(level)
    \/ \E message \in {"working", "done"}, percentage \in Percentages,
          writable \in BOOLEAN :
          UpdateStatus(message, percentage, writable)

UpdateSpec == Init /\ [][UpdateNext]_vars

-----------------------------------------------------------------------------
(* What the claims speak of *)

\* the request being served is an Execute request that Service.execute has
\* handled for a registered process
ExecuteServed ==
    /\ ~IsNone(wps_request)
    /\ Val(wps_request).operation = S("execute")
    /\ ~IsNone(Val(wps_request).identifier)
    /\ Val(Val(wps_request).identifier) \in DOMAIN processes

\* the process the request names
Target == processes[Val(Val(wps_request).identifier)]

\* the identifiers of the inputs the request submitted
Submitted ==
    IF IsNone(Val(wps_request).inputs) THEN {}
    ELSE DOMAIN Val(Val(wps_request).inputs)

\* the positions, in declared order, of the declared inputs not submitted
MissingInputs ==
    {i \in DOMAIN Target.inputs : Target.inputs[i].identifier \notin Submitted}

FirstMissing == CHOOSE i \in MissingInputs : \A j \in MissingInputs : i <= j

\* the handler of the request being served has not been invoked
NotInvoked == cur = 0 /\ ~outcome.invoked

\* the request was answered with the OGC error kind class
AnsweredWith(class) == outcome.type = "Error" /\ outcome.exc.class = class

-----------------------------------------------------------------------------
(* C1 *)

\* C1 as stated: an Execute request that lacks a declared input, also one with
\* no DataInputs at all, is answered with MissingParameterValue whose locator
\* is the first missing declared input, and the handler is not invoked.
C1_AsStated ==
    (ExecuteServed /\ MissingInputs # {}) =>
        /\ AnsweredWith("MissingParameterValue")
        /\ outcome.exc.locator = Target.inputs[FirstMissing].identifier
        /\ NotInvoked

\* C1, amended: for an Execute request that lacks a declared input the handler
\* is never invoked and Service.execute fails while checking the inputs.  With
\* no DataInputs at all the answer is MissingParameterValue with the locator
\* 'datainputs'; otherwise it is MissingParameterValue with the first missing
\* declared input as locator, unless resolving a declared input that precedes
\* it has failed first, and then that failure is the outcome.
C1_MissingInput ==
    (ExecuteServed /\ MissingInputs # {}) =>
        /\ NotInvoked
        /\ outcome.at = "inputs"
        /\ IF IsNone(Val(wps_request).inputs)
           THEN /\ AnsweredWith("MissingParameterValue")
                /\ outcome.exc.locator = S("datainputs")
           ELSE \/ /\ AnsweredWith("MissingParameterValue")
                   /\ outcome.exc.locator = Target.inputs[FirstMissing].identifier
                \/ /\ FirstMissing > 1
                   /\ outcome.raised.class \in
                          {"FileSizeExceeded", "NoApplicableCode", "AttributeError"}

\* C1 witness: a request that submits inputs but not the declared input a,
\* answered with MissingParameterValue naming a
C1_Witness ==
    /\ ExecuteServed
    /\ ~IsNone(Val(wps_request).inputs)
    /\ MissingInputs # {}
    /\ AnsweredWith("MissingParameterValue")
    /\ outcome.exc.locator = S("a")

-----------------------------------------------------------------------------
(* C2 *)

\* _run_process has ended for an execution since the request was received
RunEnded == finished.uuid # 0

\* C2 as stated: at every level, once the handler has been invoked
\* _run_process raises nothing, and a handler failure is recorded as
\* status_percentage -1 with a 'Process error' message.
C2_AsStated ==
    RunEnded =>
        /\ IsNone(finished.exc)
        /\ finished.handler = "raised" =>
              /\ finished.resp.status_percentage = -1
              /\ finished.resp.message = "Process error"

\* C2, amended: the only failure that leaves _run_process is the
\* NoApplicableCode that write_response_doc raises when the failure document
\* cannot be written, at a level that stores the status; a handler failure is
\* always recorded as status_percentage -1 with a 'Process error' message.
C2_OnlyWriteFailureEscapes ==
    RunEnded =>
        /\ \/ IsNone(finished.exc)
           \/ /\ finished.status >= STORE_STATUS
              /\ Val(finished.exc).class = "NoApplicableCode"
              /\ Val(finished.exc).description = "Writing Response Document failed"
        /\ finished.handler = "raised" =>
              /\ finished.resp.status_percentage = -1
              /\ finished.resp.message = "Process error"

\* C2 witness: a handler that raised after an update_status call, at the
\* level that stores and updates the status, recorded as failed
C2_Witness ==
    /\ RunEnded
    /\ finished.handler = "raised"
    /\ finished.status = STORE_AND_UPDATE_STATUS
    /\ nupdates > 0
    /\ IsNone(finished.exc)
    /\ finished.resp.status_percentage = -1

-----------------------------------------------------------------------------
(* C3 *)

\* the status file at loc holds a document that says the execution has gone
\* past acceptance: started, succeeded or failed
PastAccepted(dir, loc) ==
    /\ loc \in DOMAIN dir
    /\ dir[loc].state \in {"ProcessStarted", "ProcessSucceeded", "ProcessFailed"}

\* C3 as stated, in the part no handler can break (no update_status call
\* builds a ProcessAccepted document): the state read from a status file
\* never moves back from started, succeeded or failed to accepted.
C3_AsStated ==
    [][\A loc \in DOMAIN files :
          PastAccepted(files, loc) => PastAccepted(files', loc)]_vars

-----------------------------------------------------------------------------
(* C4 *)

\* the request being served asks for the flag (store_execute or status)
Asks(flag) == Val(wps_request)[flag] = Some(S("true"))

\* C4 as stated: an Execute request with storeExecuteResponse='true' for a
\* process that does not support storing is answered with
\* StorageNotSupported, and one that also has status='true' for a process
\* that supports storing but not status updates with OperationNotSupported.
\* (The processes concerned declare no input, so the input check passes.)
C4_AsStated ==
    (ExecuteServed /\ Target.inputs = <<>> /\ Asks("store_execute")) =>
        /\ Target.store_supported = "false" => AnsweredWith("StorageNotSupported")
        /\ (/\ Asks("status")
            /\ Target.store_supported = "true"
            /\ Target.status_supported = "false")
              => AnsweredWith("OperationNotSupported")

-----------------------------------------------------------------------------
(* C5 *)

\* C5 as stated: whatever the request, no failure leaves Service.__call__;
\* every error it returns is one of the OGC kinds, and a BadRequest or a
\* MethodNotAllowed is returned as NoApplicableCode with the description and
\* the status code of the original.
C5_AsStated ==
    /\ outcome.type # "Escaped"
    /\ outcome.type = "Error" => outcome.exc.class \in OGCKinds
    /\ outcome.raised.class \in {"BadRequest", "MethodNotAllowed"} =>
          /\ outcome.exc.class = "NoApplicableCode"
          /\ outcome.exc.description = outcome.raised.description
          /\ outcome.exc.code = outcome.raised.code

-----------------------------------------------------------------------------
(* C6 *)

\* Service.execute has ended the request with one of the protocol-level
\* errors: unknown process, MissingParameterValue, InvalidParameterValue,
\* FileSizeExceeded or StorageNotSupported
ProtocolError ==
    /\ outcome.at \in {"lookup", "inputs", "outputs", "Process.execute", "raw"}
    /\ outcome.raised.class \in
          {"BadRequest", "MissingParameterValue", "InvalidParameterValue",
           "FileSizeExceeded", "StorageNotSupported"}

\* C6 as stated: a step in which Service.execute ends a request with a
\* protocol-level error comes without the handler having been invoked for the
\* request; when the step is the whole serving of the request, it leaves the
\* registered Process objects, the output directory and the temporary
\* directory as they were.
C6_AsStated ==
    [][(/\ nreq' = nreq + 1 \/ (pc = "handler" /\ pc' = "idle")
        /\ ProtocolError')
          => /\ ~outcome'.invoked
             /\ nreq' = nreq + 1 =>
                   /\ processes' = processes
                   /\ files' = files
                   /\ tmpfiles' = tmpfiles]_vars

-----------------------------------------------------------------------------
(* C7 *)

\* a synchronous execution has ended whose handler raised and whose
\* _run_process returned the failed response
SyncHandlerFailed ==
    /\ RunEnded
    /\ finished.status \in {NO_STATUS, STORE_STATUS}
    /\ finished.handler = "raised"
    /\ IsNone(finished.exc)

\* C7 as stated: a synchronous Execute call whose handler raises, document or
\* raw, is answered with an ExecuteResponse document whose status is
\* ProcessFailed.
C7_AsStated ==
    SyncHandlerFailed =>
        /\ outcome.type = "ExecuteResponse"
        /\ Val(outcome.body).state = "ProcessFailed"

-----------------------------------------------------------------------------
(* C8 *)

\* _run_process has returned (not raised) for an execution
RunReturned == RunEnded /\ IsNone(finished.exc)

\* C8 as stated: on return from _run_process the percentage is 100 or -1;
\* it is 100 whenever the handler returned normally and -1 exactly when the
\* handler raised.
C8_AsStated ==
    RunReturned =>
        /\ finished.resp.status_percentage \in {100, -1}
        /\ finished.handler = "returned" => finished.resp.status_percentage = 100
        /\ finished.resp.status_percentage = -1 <=> finished.handler = "raised"

\* C8, amended: on return from _run_process the percentage is 100 or -1.  It
\* is -1 when the handler raised.  When the handler returned normally it is
\* 100, except at a level that stores the status, where a failure to write
\* the final document is caught and recorded as -1 with a 'Process error'
\* message.
C8_Terminal ==
    RunReturned =>
        /\ finished.resp.status_percentage \in {100, -1}
        /\ finished.handler = "raised" => finished.resp.status_percentage = -1
        /\ (finished.handler = "returned" /\ finished.status = NO_STATUS)
              => finished.resp.status_percentage = 100
        /\ (finished.handler = "returned" /\ finished.resp.status_percentage = -1)
              => /\ finished.status >= STORE_STATUS
                 /\ finished.resp.message = "Process error"

\* C8 witness: a handler that returned after update_status calls, at the
\* level STORE_STATUS, ended at 100
C8_Witness ==
    /\ RunReturned
    /\ finished.handler = "returned"
    /\ finished.status = STORE_STATUS
    /\ nupdates = MaxUpdates
    /\ finished.resp.status_percentage = 100
    /\ finished.resp.message = "PyWPS Process finished"

-----------------------------------------------------------------------------
(* C9 *)

\* the request parsed is a GET Execute request
GetExecuteParsed ==
    /\ http.method = "GET"
    /\ ~IsNone(wps_request)
    /\ Val(wps_request).operation = S("execute")

\* the value of the query parameter name, None when it is absent
Param(name) == get_get_param(http, name, None)

\* C9: a GET Execute request with a ResponseDocument parameter, with or
\* without RawDataOutput, is a document request (raw false) whose outputs are
\* those of ResponseDocument; one with RawDataOutput only has raw true and
\* store_execute and status 'false', whatever the query carried for them.
C9_GetForm ==
    GetExecuteParsed =>
        /\ ~IsNone(Param("ResponseDocument")) =>
              /\ Val(wps_request).raw = FALSE
              /\ Val(wps_request).outputs
                    = Val(get_data_from_kvp(Param("ResponseDocument")))
        /\ (IsNone(Param("ResponseDocument")) /\ ~IsNone(Param("RawDataOutput"))) =>
              /\ Val(wps_request).raw = TRUE
              /\ Val(wps_request).store_execute = Some(S("false"))
              /\ Val(wps_request).status = Some(S("false"))

\* C9 witness: RawDataOutput alone, with storeExecuteResponse=true and
\* status=true in the query, parsed as a raw request
C9_Witness ==
    /\ GetExecuteParsed
    /\ IsNone(Param("ResponseDocument"))
    /\ Param("RawDataOutput") = Some(S("o1"))
    /\ Param("storeExecuteResponse") = Some(S("true"))
    /\ Param("status") = Some(S("true"))
    /\ Val(wps_request).raw = TRUE
    /\ Val(wps_request).store_execute = Some(S("false"))

-----------------------------------------------------------------------------
(* C10 *)

\* the request parsed is a POST Execute document
PostExecuteParsed ==
    /\ http.method = "POST"
    /\ ~IsNone(wps_request)
    /\ Val(wps_request).operation = S("execute")

\* C10 as stated: for a POST Execute document raw is true exactly when a
\* wps:ResponseForm/wps:RawDataOutput element is present, and a raw request
\* has store_execute 'false', also when the document carries a
\* wps:ResponseDocument element with storeExecuteResponse or status
\* attributes.
C10_AsStated ==
    PostExecuteParsed =>
        /\ Val(wps_request).raw <=> http.body.raw_data_output # <<>>
        /\ Val(wps_request).raw => Val(wps_request).store_execute = Some(S("false"))

-----------------------------------------------------------------------------
(* C11 *)

\* the operation a request asks for once the checks that precede the choice
\* of operation have passed, "" otherwise: the lowercased request parameter
\* of a GET with no WSDL parameter and service WPS, the root element of a
\* well-formed POST document
Operation ==
    IF http.method = "GET"
    THEN IF /\ IsNone(Param("WSDL"))
            /\ Truthy(Param("service"))
            /\ Lower(Val(Param("service"))) = S("wps")
            /\ Truthy(Param("request"))
         THEN Lower(Val(Param("request")))
         ELSE S("")
    ELSE IF http.method = "POST" /\ http.body.wellformed
    THEN Lower(S(http.body.root))
    ELSE S("")

\* the version the request carries: the version parameter of a GET, the
\* version attribute of the root of a POST document
RequestVersion ==
    IF http.method = "GET" THEN Param("version") ELSE http.body.version

\* WPSRequest(http_request) raised an exception of the kind class
ParsingFailedWith(class) == IsNone(wps_request) /\ outcome.raised.class = class

\* C11: a DescribeProcess or Execute request, GET or POST, fails in the parser
\* with MissingParameterValue when its version is absent or empty and with
\* VersionNegotiationFailed when it is any other value than '1.0.0'; with
\* version '1.0.0' the parser raises neither and records the version; a
\* GetCapabilities request is parsed whether or not it carries a version.
C11_Version ==
    /\ Operation \in {S("describeprocess"), S("execute")} =>
          /\ ~Truthy(RequestVersion) =>
                /\ ParsingFailedWith("MissingParameterValue")
                /\ outcome.raised.locator = S("version")
          /\ (Truthy(RequestVersion) /\ Val(RequestVersion) # S("1.0.0")) =>
                ParsingFailedWith("VersionNegotiationFailed")
          /\ RequestVersion = Some(S("1.0.0")) =>
                /\ outcome.raised.class
                      \notin {"MissingParameterValue", "VersionNegotiationFailed"}
                /\ ~IsNone(wps_request) => Val(wps_request).version = Some(S("1.0.0"))
                /\ http.method = "GET" => ~IsNone(wps_request)
    /\ Operation = S("getcapabilities") =>
          /\ ~IsNone(wps_request)
          /\ Val(wps_request).operation = S("getcapabilities")

\* C11 witness: a POST Execute document with version '1.0' refused with
\* VersionNegotiationFailed
C11_Witness ==
    /\ http.method = "POST"
    /\ Operation = S("execute")
    /\ RequestVersion = Some(S("1.0"))
    /\ ParsingFailedWith("VersionNegotiationFailed")

-----------------------------------------------------------------------------
(* C12 *)

\* the request parameter names one of the three operations, in any letter case
KnownOperation ==
    Lower(Val(Param("request")))
        \in {S("getcapabilities"), S("describeprocess"), S("execute")}

\* none of the checks on WSDL, service and request failed
PastOperationChecks ==
    /\ outcome.raised.class
          \notin {"NoApplicableCode", "OperationNotSupported", "InvalidParameterValue"}
    /\ outcome.raised.class = "MissingParameterValue" =>
          outcome.raised.locator = S("version")

\* C12 as stated: for a GET request a WSDL parameter gives NoApplicableCode
\* whatever else is sent; then an absent service gives MissingParameterValue,
\* a service that is not 'wps' in any letter case OperationNotSupported, an
\* absent request MissingParameterValue, and a request that names none of
\* the three operations InvalidParameterValue.
C12_AsStated ==
    http.method = "GET" =>
        IF ~IsNone(Param("WSDL")) THEN ParsingFailedWith("NoApplicableCode")
        ELSE IF IsNone(Param("service"))
        THEN ParsingFailedWith("MissingParameterValue")
        ELSE IF Lower(Val(Param("service"))) # S("wps")
        THEN ParsingFailedWith("OperationNotSupported")
        ELSE IF IsNone(Param("request"))
        THEN ParsingFailedWith("MissingParameterValue")
        ELSE IF ~KnownOperation
        THEN ParsingFailedWith("InvalidParameterValue")
        ELSE PastOperationChecks

\* C12 amended: as C12_AsStated, with an empty service or request value
\* treated as an absent one (MissingParameterValue, with the parameter as
\* locator), not as a wrong one.
C12_CheckOrder ==
    http.method = "GET" =>
        IF ~IsNone(Param("WSDL")) THEN ParsingFailedWith("NoApplicableCode")
        ELSE IF ~Truthy(Param("service"))
        THEN /\ ParsingFailedWith("MissingParameterValue")
             /\ outcome.raised.locator = S("service")
        ELSE IF Lower(Val(Param("service"))) # S("wps")
        THEN ParsingFailedWith("OperationNotSupported")
        ELSE IF ~Truthy(Param("request"))
        THEN /\ ParsingFailedWith("MissingParameterValue")
             /\ outcome.raised.locator = S("request")
        ELSE IF ~KnownOperation
        THEN /\ ParsingFailedWith("InvalidParameterValue")
             /\ outcome.raised.locator = S("request")
        ELSE PastOperationChecks

\* C12 witness: a GET request with a WSDL parameter, no service and an
\* unknown request value, refused with NoApplicableCode
C12_Witness ==
    /\ http.method = "GET"
    /\ ~IsNone(Param("WSDL"))
    /\ IsNone(Param("service"))
    /\ Param("request") = Some(S("Foo"))
    /\ ParsingFailedWith("NoApplicableCode")

-----------------------------------------------------------------------------
(* C13 *)

\* the entries of the DataInputs string of the request
Entries == Split(Val(Param("DataInputs")), ";")

\* the segments of an entry: identifier=value, then the @attr=value ones
Segments(e) == Split(e, "@")

\* every segment of the entry is name=value, with one '='
WellFormed(e) == \A i \in DOMAIN Segments(e) : Len(Split(Segments(e)[i], "=")) = 2

\* the key the entry is stored under
KeyOf(e) ==
    IF WellFormed(e) THEN Split(Segments(e)[1], "=")[1] ELSE e

\* the field names an entry sets, in the order it sets them, and their values
FieldNames(e) ==
    [i \in 1..(Len(Segments(e)) + 1) |->
        IF i = 1 THEN S("identifier") ELSE IF i = 2 THEN S("data")
        ELSE Split(Segments(e)[i - 1], "=")[1]]

FieldValues(e) ==
    [i \in 1..(Len(Segments(e)) + 1) |->
        IF i = 1 THEN Split(Segments(e)[1], "=")[1]
        ELSE Split(Segments(e)[i - 1], "=")[2]]

\* what a malformed entry is stored as
Degraded(e) == (S("identifier") :> e) @@ (S("data") :> <<>>)

\* the dictionary io holds every field the entry sets, with the value the
\* entry gives it
HoldsEveryField(io, e) ==
    /\ DOMAIN io = {FieldNames(e)[i] : i \in DOMAIN FieldNames(e)}
    /\ \A i \in DOMAIN FieldNames(e) : io[FieldNames(e)[i]] = FieldValues(e)[i]

\* the dictionary io holds the fields the entry sets, a field set twice
\* having the value set last
HoldsLastField(io, e) ==
    /\ DOMAIN io = {FieldNames(e)[i] : i \in DOMAIN FieldNames(e)}
    /\ \A i \in DOMAIN FieldNames(e) :
          (\A j \in DOMAIN FieldNames(e) : FieldNames(e)[j] = FieldNames(e)[i] => j <= i)
              => io[FieldNames(e)[i]] = FieldValues(e)[i]

\* a GET Execute request with a DataInputs parameter has been parsed
KvpParsed ==
    /\ http.method = "GET"
    /\ Operation = S("execute")
    /\ RequestVersion = Some(S("1.0.0"))
    /\ ~IsNone(Param("DataInputs"))

\* the dictionary get_data_from_kvp gave for the DataInputs string
TheData == Val(Val(wps_request).inputs)

\* C13 as stated: get_data_from_kvp fails for no string; every well-formed
\* entry gives an entry under its identifier holding identifier, data and each
\* attribute, every malformed one an entry under its whole text with
\* identifier the text and data '', whatever the other entries of the string.
C13_AsStated ==
    KvpParsed =>
        /\ ~IsNone(wps_request)
        /\ ~IsNone(Val(wps_request).inputs)
        /\ DOMAIN TheData = {KeyOf(Entries[i]) : i \in DOMAIN Entries}
        /\ \A i \in DOMAIN Entries :
              IF WellFormed(Entries[i])
              THEN HoldsEveryField(TheData[KeyOf(Entries[i])], Entries[i])
              ELSE TheData[KeyOf(Entries[i])] = Degraded(Entries[i])

\* C13 amended: as C13_AsStated for the last entry of each key; an entry is
\* replaced by a later entry stored under the same key, and within an entry
\* an attribute named as an earlier field replaces its value.
C13_LastWins ==
    KvpParsed =>
        /\ ~IsNone(wps_request)
        /\ ~IsNone(Val(wps_request).inputs)
        /\ DOMAIN TheData = {KeyOf(Entries[i]) : i \in DOMAIN Entries}
        /\ \A i \in DOMAIN Entries :
              (\A j \in DOMAIN Entries : KeyOf(Entries[j]) = KeyOf(Entries[i]) => j <= i)
                  => IF WellFormed(Entries[i])
                     THEN HoldsLastField(TheData[KeyOf(Entries[i])], Entries[i])
                     ELSE TheData[KeyOf(Entries[i])] = Degraded(Entries[i])

\* C13 witness: a string of a well-formed entry with an attribute and an
\* entry whose attribute segment has no '=', parsed into two entries
C13_Witness ==
    /\ KvpParsed
    /\ Entries = << <<"b", "=", "2">>, <<"a", "=", "1", "@", "x">> >>
    /\ ~IsNone(wps_request)
    /\ TheData[S("b")] = (S("identifier") :> S("b")) @@ (S("data") :> S("2"))
    /\ TheData[<<"a", "=", "1", "@", "x">>] = Degraded(<<"a", "=", "1", "@", "x">>)

-----------------------------------------------------------------------------
(* C14 *)

\* Service.describe has been called for the request being served
DescribeServed ==
    /\ ~IsNone(wps_request)
    /\ Val(wps_request).operation = S("describeprocess")

\* the identifier list it was called with
Identifiers == Val(Val(wps_request).identifiers)

\* the list holds the keyword 'all', in some letter case
AsksForAll == \E i \in DOMAIN Identifiers : Lower(Identifiers[i]) = S("all")

\* the positions of the identifiers that name no registered process
Unregistered == {i \in DOMAIN Identifiers : Identifiers[i] \notin DOMAIN processes}

\* C14: Service.describe fails with MissingParameterValue for an absent or
\* empty identifier list; for a list that holds 'all', in any letter case and
\* at any position, it describes every registered process once, whatever
\* else the list holds; for a list without 'all' that names an unregistered
\* process it fails with InvalidParameterValue naming the first such
\* identifier, and describes nothing.
C14_Describe ==
    DescribeServed =>
        IF IsNone(Val(wps_request).identifiers) \/ Identifiers = <<>>
        THEN /\ AnsweredWith("MissingParameterValue")
             /\ outcome.exc.locator = S("identifier")
        ELSE IF AsksForAll
        THEN /\ outcome.type = "ProcessDescriptions"
             /\ {Val(outcome.body)[i] : i \in DOMAIN Val(outcome.body)} = DOMAIN processes
             /\ Len(Val(outcome.body)) = Cardinality(DOMAIN processes)
        ELSE IF Unregistered # {}
        THEN /\ AnsweredWith("InvalidParameterValue")
             /\ \E i \in Unregistered :
                   /\ \A j \in Unregistered : i <= j
                   /\ outcome.exc.description = UnknownProcess(Identifiers[i])
             /\ IsNone(outcome.body)
        ELSE outcome.type = "ProcessDescriptions"

\* C14 witness: the list <<nope, ALL>> answered with the descriptions of the
\* registered processes
C14_Witness ==
    /\ DescribeServed
    /\ Val(wps_request).identifiers = Some(<<S("nope"), S("ALL")>>)
    /\ outcome.type = "ProcessDescriptions"
    /\ Len(Val(outcome.body)) = Cardinality(DOMAIN Registry)

-----------------------------------------------------------------------------
(* C15 *)

\* the inputs the request being served submitted, as the parser read them
SubmittedInputs == Val(Constructed[http][FALSE].req.inputs)

\* the request being served is an Execute request for the process "full" that
\* submitted its first declared input, the complex input b, as a dictionary
\* with the keys of a complex input
ComplexSubmitted ==
    /\ nreq > 0
    /\ ExecuteServed
    /\ Target.identifier = S("full")
    /\ ~IsNone(Constructed[http][FALSE].req.inputs)
    /\ S("b") \in DOMAIN SubmittedInputs
    /\ S("identifier") \in DOMAIN SubmittedInputs[S("b")]

\* the complex input was submitted by reference, and the reference was fetched
ByReference ==
    /\ Truthy(GetOpt(SubmittedInputs[S("b")], S("href")))
    /\ fetched.fetch_ok

\* the complex input was submitted inline, as a string
Inline ==
    /\ ~Truthy(GetOpt(SubmittedInputs[S("b")], S("href")))
    /\ S("data") \in DOMAIN SubmittedInputs[S("b")]
    /\ SubmittedInputs[S("b")][S("data")] # XmlElement

\* the size of a referenced payload: its Content-Length, or its measured
\* number of bytes when the header is absent or zero
PayloadSize ==
    IF ~IsNone(fetched.content_length) /\ Val(fetched.content_length) # 0
    THEN Val(fetched.content_length)
    ELSE fetched.size

\* the request was refused for the size of the input
RefusedForSize ==
    /\ outcome.raised.class = "FileSizeExceeded"
    /\ outcome.raised.locator = S("b")

\* C15 as stated: an inline payload is refused with FileSizeExceeded exactly
\* when its UTF-8 length is greater than max_megabytes * 1024 * 1024, and a
\* referenced payload exactly when its size, the Content-Length or the
\* measured number of bytes when the header is absent or zero, is greater
\* than that limit.
C15_AsStated ==
    ComplexSubmitted =>
        /\ Inline =>
              (RefusedForSize <=> Utf8Len(SubmittedInputs[S("b")][S("data")]) > byte_size)
        /\ ByReference => (RefusedForSize <=> PayloadSize > byte_size)

-----------------------------------------------------------------------------
(* C16 *)

\* the size of the source file of the last store call, rounded up to whole
\* blocks, in bytes
RoundedSize ==
    CHOOSE n \in 0..(stored.file_size + stored.file_block_size) :
        /\ n % stored.file_block_size = 0
        /\ n >= stored.file_size
        /\ n - stored.file_size < stored.file_block_size

\* C16 as stated: FileStorage.store raises NotEnoughStorage, and copies
\* nothing, exactly when the size of the file rounded up to the block size
\* exceeds the free space of the destination in bytes; otherwise it copies the
\* file under a new name and returns PATH, the name and the URL of the name.
C16_AsStated ==
    [][ stored' # stored =>
          IF RoundedSize' > stored'.disk.free_bytes
          THEN /\ ~IsNone(stored'.raised)
               /\ Val(stored'.raised).class = "NotEnoughStorage"
               /\ stored'.copies = stored.copies
          ELSE /\ IsNone(stored'.raised)
               /\ Len(stored'.copies) = Len(stored.copies) + 1
               /\ \A i \in DOMAIN stored.copies :
                     stored.copies[i].name # Val(stored'.value)[2]
               /\ stored'.copies[Len(stored'.copies)].name = Val(stored'.value)[2]
               /\ stored'.copies[Len(stored'.copies)].size = stored'.file_size
               /\ Val(stored'.value)[1] = PATH
               /\ Val(stored'.value)[3][Len(Val(stored'.value)[3])]
                     = Val(stored'.value)[2] ]_vars

-----------------------------------------------------------------------------
(* C17 *)

\* Service.execute has called Process.execute for the request being served:
\* the process is registered and neither the inputs nor the requested outputs
\* were refused
ProcessExecuteCalled ==
    /\ ExecuteServed
    /\ outcome.at \notin {"lookup", "inputs", "outputs"}

\* Process.execute raised a failure with the message, and the handler was not
\* invoked
RefusedBecause(message) ==
    /\ outcome.at = "Process.execute"
    /\ outcome.raised.description = message
    /\ NotInvoked

\* the handler has been invoked at the level, in a spawned task or not
InvokedAt(level, spawned) ==
    /\ cur \in DOMAIN tasks
    /\ tasks[cur].resp.status = level
    /\ tasks[cur].async = spawned
    /\ tasks[cur].pc = "handler"
    /\ pc = IF spawned THEN "respond" ELSE "handler"

\* what C17 says of the state a request is received into
LevelFromFlags ==
    IF Asks("store_execute") /\ Target.store_supported # "true"
    THEN RefusedBecause("Process does not support the storing of the execute response")
    ELSE IF Asks("store_execute") /\ Asks("status") /\ Target.status_supported # "true"
    THEN RefusedBecause("Process does not support the updating of status")
    ELSE IF Asks("store_execute") /\ Asks("status")
    THEN InvokedAt(STORE_AND_UPDATE_STATUS, TRUE)
    ELSE IF Asks("store_execute")
    THEN InvokedAt(STORE_STATUS, FALSE)
    ELSE InvokedAt(NO_STATUS, FALSE)

-----------------------------------------------------------------------------
(* C18 *)

\* the document at the status_location of execution u, None when no file
\* has been written there
Persisted(fs, u) == GetOpt(fs, tasks[u].location)

\* the status elements of a terminal document
TerminalStates == {"ProcessSucceeded", "ProcessFailed"}

\* execution u runs at the level and its handler has neither returned nor
\* raised
RunningAt(u, level) ==
    /\ tasks[u].resp.status = level
    /\ tasks[u].pc = "handler"

\* C18 as stated: in an execution at level STORE_STATUS no step taken while
\* the handler is running changes the file at status_location, and when
\* _run_process returns without a failure the file holds the terminal
\* document it built, written after the handler has returned or failed.
C18_AsStated ==
    [][\A u \in DOMAIN tasks :
          /\ RunningAt(u, STORE_STATUS) => Persisted(files', u) = Persisted(files, u)
          /\ (/\ tasks[u].resp.status = STORE_STATUS
              /\ u \notin DOMAIN tasks'
              /\ IsNone(finished'.exc))
             => /\ Persisted(files', u) = finished'.resp.doc
                /\ ~IsNone(finished'.resp.doc)
                /\ Val(finished'.resp.doc).state \in TerminalStates]_vars

-----------------------------------------------------------------------------
(* C19 *)

\* update_status has been called on the response
UpdateCalled == nupdates > 0 /\ updated # NoUpdate

\* the call set status_percentage to the value supplied and rebuilt the
\* document from it
SetAndRebuilt ==
    /\ updated.after.status_percentage = Val(updated.percentage)
    /\ updated.after.doc =
          Some(construct_doc([updated.before EXCEPT
                                 !.message = updated.message,
                                 !.status_percentage = Val(updated.percentage)],
                             1, None, <<>>).doc)

\* the call left status_percentage and the last-built document alone
LeftAsBuilt ==
    /\ updated.after.status_percentage = updated.before.status_percentage
    /\ updated.after.doc = updated.before.doc

\* C19 as stated: update_status(message, percentage) always records the
\* message; for every supplied percentage, 0 included, it sets
\* status_percentage and rebuilds the document, and without a percentage it
\* leaves both unchanged; it writes the current document exactly when the
\* level is STORE_STATUS or higher, and completes without failure even when no
\* document has been built yet (the file system accepting the write).
C19_AsStated ==
    UpdateCalled =>
        /\ updated.after.message = updated.message
        /\ IF IsNone(updated.percentage) THEN LeftAsBuilt ELSE SetAndRebuilt
        /\ updated.writable =>
              /\ IsNone(updated.exc)
              /\ ~IsNone(updated.written) <=> updated.after.status >= STORE_STATUS
              /\ updated.written = IF updated.after.status >= STORE_STATUS
                                   THEN updated.after.doc ELSE None

-----------------------------------------------------------------------------
(* C20 *)

\* the kind of document C20 gives for a level and a percentage
DocKind(level, percentage) ==
    IF level = STORE_AND_UPDATE_STATUS /\ percentage = 0 THEN "ProcessAccepted"
    ELSE IF level = STORE_AND_UPDATE_STATUS /\ 0 < percentage /\ percentage < 100
    THEN "ProcessStarted"
    ELSE IF percentage = -1 THEN "ProcessFailed"
    ELSE "ProcessSucceeded"

\* doc is what C20 says is built from the response for a request with the
\* lineage flag: the kind, a ProcessOutputs block in a ProcessSucceeded
\* document only, and the lineage blocks in it exactly for lineage 'true'
BuiltFrom(doc, resp, lineage) ==
    /\ doc.state = DocKind(resp.status, resp.status_percentage)
    /\ ~IsNone(doc.outputs) <=> doc.state = "ProcessSucceeded"
    /\ doc.lineage <=> (doc.state = "ProcessSucceeded" /\ lineage = Some(S("true")))

\* the documents the running and ended handlers' update_status calls built
UpdatesBuilt ==
    \A u \in DOMAIN tasks :
        ~IsNone(tasks[u].resp.doc)
            => BuiltFrom(Val(tasks[u].resp.doc), tasks[u].resp, tasks[u].lineage)

\* the step answers the request with an ExecuteResponse document
Renders == pc # "idle" /\ pc' = "idle" /\ outcome'.type = "ExecuteResponse"

\* the response the step renders: the one handed to the spawned task as it
\* was at the hand-off, or the one the synchronous _run_process returned
Rendered ==
    IF pc = "respond" THEN [NewResponse EXCEPT !.status = STORE_AND_UPDATE_STATUS]
    ELSE finished'.resp

\* the document rendered is built as C20 says, and a ProcessAccepted one is
\* in the file at status_location at once
RenderedBuilt ==
    /\ BuiltFrom(Val(outcome'.body), Rendered, Val(wps_request).lineage)
    /\ Val(outcome'.body).state = "ProcessAccepted"
          => GetOpt(files', Target.status_location) = outcome'.body

\* a handler that is still running has built a document with outputs
OutputsWhileRunning(u) ==
    /\ tasks[u].pc = "handler"
    /\ ~IsNone(tasks[u].resp.doc)
    /\ ~IsNone(Val(tasks[u].resp.doc).outputs)

\* C20 as stated: the kind of every document built is the function of (level,
\* status_percentage) given, with ProcessOutputs in ProcessSucceeded documents
\* only and the lineage blocks exactly for lineage 'true', and no document
\* with outputs is built while the handler is still running.
C20_AsStated ==
    [][ /\ UpdatesBuilt'
        /\ Renders => RenderedBuilt
        /\ \A u \in DOMAIN tasks' : ~OutputsWhileRunning(u)' ]_vars

\* C20, amended: the kind of every document built is the function of (level,
\* status_percentage) given, with ProcessOutputs in ProcessSucceeded documents
\* only and the lineage blocks exactly for lineage 'true'; a running handler
\* has built a document with outputs exactly when its last non-zero percentage
\* makes the kind ProcessSucceeded.
C20_Kind ==
    [][ /\ UpdatesBuilt'
        /\ Renders => RenderedBuilt
        /\ \A u \in DOMAIN tasks' :
              OutputsWhileRunning(u)'
                 <=> /\ tasks'[u].pc = "handler"
                     /\ ~IsNone(tasks'[u].resp.doc)
                     /\ DocKind(tasks'[u].resp.status,
                                tasks'[u].resp.status_percentage)
                           = "ProcessSucceeded" ]_vars

\* C20 witness: a handler running at STORE_STATUS has reported 50 and the
\* document built for it is a ProcessSucceeded one with outputs
C20_Witness ==
    \E u \in DOMAIN tasks :
        /\ OutputsWhileRunning(u)
        /\ tasks[u].resp.status = STORE_STATUS
        /\ tasks[u].resp.status_percentage = 50
        /\ Val(tasks[u].resp.doc).state = "ProcessSucceeded"

-----------------------------------------------------------------------------
(* C21 *)

\* execution u stores its response
Stores(u) == tasks[u].resp.status >= STORE_STATUS

\* the executions that store their responses have their own status files:
\* the status_location of execution u is the file named by the uuid drawn for
\* its Process.execute call
OwnStatusFiles == \A u \in DOMAIN tasks : Stores(u) => tasks[u].location = u

\* the step changes the status file loc
StatusWritten(loc) == GetOpt(files', loc) # GetOpt(files, loc)

\* the step is one of execution u: an update_status call of its handler, which
\* leaves the document of u in the file, the end of its _run_process, or the
\* rendering of the response handed to its spawned task
StepOf(u) ==
    \/ /\ u \in DOMAIN tasks
       /\ u \in DOMAIN tasks'
       /\ nupdates' # nupdates
       /\ GetOpt(files', u) = tasks'[u].resp.doc
    \/ u \in DOMAIN tasks /\ u \notin DOMAIN tasks'
    \/ pc = "respond" /\ cur = u

\* C21: every execution that stores its response has the status file named by
\* its own uuid, so no two executions share a status_location, and every step
\* that changes a status file is a step of the execution the file belongs to,
\* however the executions of the same or of different processes interleave.
C21_OwnStatusFile ==
    [][ /\ OwnStatusFiles'
        /\ \A loc \in DOMAIN files' : StatusWritten(loc) => StepOf(loc) ]_vars

\* C21 witness: while the spawned task of an execution that has written its
\* status file is running, a later execution of the same process has written
\* its own
C21_Witness ==
    \E u \in DOMAIN tasks : \E v \in DOMAIN files :
        /\ ExecuteServed
        /\ tasks[u].async
        /\ tasks[u].process = Target.identifier
        /\ u \in DOMAIN files
        /\ v # u
        /\ finished.uuid = v
        /\ files[v] # files[u]

-----------------------------------------------------------------------------
(* C22 *)

\* an Execute request, GET or POST, has been parsed
ExecuteParsed ==
    /\ ~IsNone(wps_request)
    /\ Val(wps_request).operation = S("execute")

\* the literal strings 'true' and 'false'
Literal(flag) == flag \in {Some(S("true")), Some(S("false"))}

\* C22 as stated: after an Execute request has been parsed, GET or POST, each
\* of the flags lineage, store_execute and status is the literal string
\* 'true' or 'false', whatever the client supplied for them.
C22_AsStated ==
    ExecuteParsed =>
        /\ Literal(Val(wps_request).lineage)
        /\ Literal(Val(wps_request).store_execute)
        /\ Literal(Val(wps_request).status)

-----------------------------------------------------------------------------
(* C23 *)

\* the step leaves the data of every declared output object of every
\* registered process as it was
DeclaredOutputsKept ==
    \A p \in DOMAIN processes :
        \A i \in DOMAIN processes[p].outputs :
            processes'[p].outputs[i].data = processes[p].outputs[i].data

\* the step answers a raw request with the data of an output
ReturnsRawData == pc # "idle" /\ pc' = "idle" /\ outcome'.type = "RawData"

\* C23 as stated: the outputs of a WPSResponse are copies, so no step changes
\* the data of the Process's declared output objects, and the value an
\* execution returns is one its own handler produced or none, never one of an
\* earlier execution.
C23_AsStated ==
    [][ /\ DeclaredOutputsKept
        /\ ReturnsRawData => Val(outcome'.body) \in {None, Some(cur)} ]_vars

-----------------------------------------------------------------------------
(* C24 *)

\* the request being served is a non-raw Execute request for the process p
\* that names the output id
Names(p, id) ==
    /\ ExecuteServed
    /\ Target.identifier = p
    /\ ~Val(wps_request).raw
    /\ id \in DOMAIN Val(wps_request).outputs

\* the request being served asks for the output id as a reference:
\* asReference is 'true', in any case of the letters
AsksReference(id) == IsReference(Val(wps_request), id)

\* what C24 says a step does to the as_reference flag of the declared output
\* o of process p: it changes only when the step receives a request that
\* names the output, and then to what the request asks; and once
\* Process.execute is called for such a request the flag is what it asks
FlagFollows(p, o, after) ==
    /\ after # o.as_reference
          => /\ nreq' = nreq + 1
             /\ Names(p, o.identifier)'
             /\ after = AsksReference(o.identifier)'
    /\ (nreq' = nreq + 1 /\ Names(p, o.identifier)' /\ ProcessExecuteCalled')
          => after = AsksReference(o.identifier)'

\* C24: Service.execute changes the as_reference flag only of declared outputs
\* named in the outputs of a non-raw request, setting it to whether the
\* request's asReference is 'true' in any case; a declared output that is not
\* named, and every declared output during a raw request, keeps the value
\* earlier requests left, and no other step resets it.
C24_AsReference ==
    [][ \A p \in DOMAIN processes :
           \A i \in DOMAIN processes[p].outputs :
               FlagFollows(p, processes[p].outputs[i],
                           processes'[p].outputs[i].as_reference) ]_vars

\* C24 witness: Process.execute has been called for a request that does not
\* set the flag of a declared output, raw or not naming it, and the output
\* still has the as_reference an earlier request gave it
C24_Witness ==
    /\ ProcessExecuteCalled
    /\ \E i \in DOMAIN Target.outputs :
          /\ ~Names(Target.identifier, Target.outputs[i].identifier)
          /\ Target.outputs[i].as_reference

=============================================================================
